---- MODULE Spec2Model ----
(***************************************************************************)
(* RecursiveDriftEngine: the simulation coordinator (DriftEngine), its     *)
(* entropy field, resource ledger and logs, and the glyph-alchemy          *)
(* combination registry (AlchemySystem).                                   *)
(*                                                                         *)
(* Floats are fixed-point integers in thousandths (Scale): 0.5 is 500.     *)
(* Python values stored in records are tagged, [t, v], with v always a     *)
(* sequence of integers: a string is its code points, a number a           *)
(* one-element sequence, a list of glyphs the glyphs' code points.         *)
(* A glyph is its Unicode code point, so sorted() is integer order.        *)
(***************************************************************************)
EXTENDS Integers, Sequences, FiniteSets, TLC

\* ------------------------------------------------------------------ bounds
\* Calls the caller threads may start, and timer firings.
MaxCalls == 2
MaxTicks == 1
\* combine_glyphs calls
MaxResolves == 3
\* load_game_state calls, and combine_glyphs calls in a session that saves and loads
MaxLoads == 1
MaxSessionResolves == 1
MaxSessionCalls == 3
MaxWipeCalls == 5

\* --------------------------------------------------------------- constants
Scale == 1000
InitialTimeSalt == 100
InitialFragments == 50
FluxMidpoint == 500
ForkFactor == 105
CollapseFactor == 95
SentienceThreshold == 200

\* GlyphManager.base_glyphs, by code point
base_glyphs == <<9650, 8855, 8776, 8711, 8710>>

get_all_glyphs == base_glyphs

Glyphs == {base_glyphs[i] : i \in 1..Len(base_glyphs)}

\* EnclaveSystem.get_all_enclave_ids()
EnclaveIds == {"void_nexus", "entropy_gardens", "crystal_sanctum",
               "temporal_streams", "energy_maelstrom"}

\* "Xi-Void-404"
node_id == <<88, 105, 45, 86, 111, 105, 100, 45, 52, 48, 52>>

\* caller threads and the entropy timer thread
Callers == {"ui", "worker"}

TimerThread == "timer"

Threads == Callers \cup {TimerThread}

\* ------------------------------------------------------------ Python values
Str(s) == [t |-> "str", v |-> s]

Num(n) == [t |-> "num", v |-> <<n>>]

List(l) == [t |-> "list", v |-> l]

Other == [t |-> "other", v |-> <<>>]

NumVal(x) == x.v[1]

\* decimal digits of n (n >= 0), as code points
RECURSIVE Digits(_)
Digits(n) == IF n < 10 THEN <<48 + n>> ELSE Append(Digits(n \div 10), 48 + (n % 10))

\* max(lo, min(hi, x))
Clamp(lo, hi, x) == IF x < lo THEN lo ELSE IF x > hi THEN hi ELSE x

\* x * (pct / 100) on thousandths
Scaled(x, pct) == (x * pct) \div 100

\* ------------------------------------------------------- PatternKey encoder
MinGlyphs == 2
MaxGlyphs == 5

RECURSIVE Insert(_, _)
Insert(x, s) ==
  IF s = <<>> THEN <<x>>
  ELSE IF x <= Head(s) THEN <<x>> \o s ELSE <<Head(s)>> \o Insert(x, Tail(s))

\* sorted(glyphs): ascending code points
RECURSIVE sorted(_)
sorted(s) == IF s = <<>> THEN <<>> ELSE Insert(Head(s), sorted(Tail(s)))

\* hashlib.md5(pattern_string.encode()).hexdigest()[:8]: a fixed-width digest,
\* a deterministic function of the joined string.  MD5 itself is replaced by a
\* polynomial digest of 24 bits; both are free of collisions on the strings of
\* up to 6 glyphs that the model builds.
DigestBase == 127
DigestModulus == 16777213

RECURSIVE DigestFrom(_, _)
DigestFrom(h, s) ==
  IF s = <<>> THEN h ELSE DigestFrom((h * DigestBase + Head(s)) % DigestModulus, Tail(s))

md5_hexdigest8(pattern_string) == DigestFrom(0, pattern_string)

\* "".join(sorted_glyphs) of one-character glyphs is the sequence of their
\* code points; f"pattern_{len(glyphs)}_{pattern_hash}" is the pair
_generate_pattern_key_unsorted(glyphs) == <<Len(glyphs), md5_hexdigest8(glyphs)>>

_generate_pattern_key(glyphs) == <<Len(glyphs), md5_hexdigest8(sorted(glyphs))>>

\* ----------------------------------------------------- Combination Registry
fundamental_patterns ==
  << [glyphs |-> <<base_glyphs[1], base_glyphs[2]>>,
      result |-> [result_glyph |-> 9889, name |-> "Void Lightning",
                  properties |-> <<"energy", "piercing", "unstable">>,
                  potency |-> 700, stability |-> 400, entropy_cost |-> 100]],
     [glyphs |-> <<base_glyphs[2], base_glyphs[3]>>,
      result |-> [result_glyph |-> 8766, name |-> "Infinite Spiral",
                  properties |-> <<"recursive", "growth", "time">>,
                  potency |-> 600, stability |-> 800, entropy_cost |-> 150]],
     [glyphs |-> <<base_glyphs[3], base_glyphs[4]>>,
      result |-> [result_glyph |-> 9674, name |-> "Crystal Resonance",
                  properties |-> <<"structure", "amplification", "memory">>,
                  potency |-> 800, stability |-> 900, entropy_cost |-> 50]],
     [glyphs |-> <<base_glyphs[1], base_glyphs[2], base_glyphs[3]>>,
      result |-> [result_glyph |-> 10192, name |-> "Triadic Void",
                  properties |-> <<"balance", "synthesis", "transcendence">>,
                  potency |-> 900, stability |-> 600, entropy_cost |-> 250]],
     [glyphs |-> <<base_glyphs[2], base_glyphs[4], base_glyphs[5]>>,
      result |-> [result_glyph |-> 10728, name |-> "Convergent Matrix",
                  properties |-> <<"convergence", "power", "danger">>,
                  potency |-> 1000, stability |-> 300, entropy_cost |-> 400]] >>

\* known_combinations[pattern_key] = result, in the dict's order
initialize_base_combinations ==
  LET n == Len(fundamental_patterns)
      key(i) == _generate_pattern_key(fundamental_patterns[i].glyphs)
  IN [k \in {key(i) : i \in 1..n} |->
        LET last == CHOOSE i \in 1..n : key(i) = k /\ \A j \in (i + 1)..n : key(j) # k
        IN fundamental_patterns[last].result]

Elements == {"void", "energy", "flow", "stability", "change"}

\* elemental_affinities.get(glyph, "unknown")
elemental_affinity(glyph) ==
  CASE glyph = base_glyphs[1] -> "void"
    [] glyph = base_glyphs[2] -> "energy"
    [] glyph = base_glyphs[3] -> "flow"
    [] glyph = base_glyphs[4] -> "stability"
    [] glyph = base_glyphs[5] -> "change"
    [] OTHER -> "unknown"

resonance_rules ==
  [p \in {<<"void", "energy">>, <<"void", "flow">>, <<"void", "stability">>,
          <<"void", "change">>, <<"energy", "flow">>, <<"energy", "stability">>,
          <<"energy", "change">>, <<"flow", "stability">>, <<"flow", "change">>,
          <<"stability", "change">>} |->
     CASE p = <<"void", "energy">> -> 800
       [] p = <<"void", "flow">> -> 300
       [] p = <<"void", "stability">> -> 100
       [] p = <<"void", "change">> -> 900
       [] p = <<"energy", "flow">> -> 700
       [] p = <<"energy", "stability">> -> 200
       [] p = <<"energy", "change">> -> 800
       [] p = <<"flow", "stability">> -> 400
       [] p = <<"flow", "change">> -> 600
       [] p = <<"stability", "change">> -> 100]

\* resonance_rules.get(key, resonance_rules.get(reverse_key, 0.5))
_calculate_elemental_resonance(elem1, elem2) ==
  IF <<elem1, elem2>> \in DOMAIN resonance_rules THEN resonance_rules[<<elem1, elem2>>]
  ELSE IF <<elem2, elem1>> \in DOMAIN resonance_rules THEN resonance_rules[<<elem2, elem1>>]
  ELSE 500

\* initialize_elemental_system
resonance_matrix ==
  [elem1 \in Elements |->
     [elem2 \in Elements |->
        IF elem1 = elem2 THEN 1000 ELSE _calculate_elemental_resonance(elem1, elem2)]]

RECURSIVE SumOver(_, _)
SumOver(S, f) ==
  IF S = {} THEN 0 ELSE LET x == CHOOSE x \in S : TRUE IN f[x] + SumOver(S \ {x}, f)

Max(a, b) == IF a > b THEN a ELSE b

Min(a, b) == IF a < b THEN a ELSE b

\* _calculate_total_resonance: the mean over the pairs found in the matrix
_calculate_total_resonance(glyphs) ==
  IF Len(glyphs) < 2 THEN 0
  ELSE
    LET pairs == {p \in (1..Len(glyphs)) \X (1..Len(glyphs)) : p[1] < p[2]}
        elem(i) == elemental_affinity(glyphs[i])
        found == {p \in pairs : elem(p[1]) \in DOMAIN resonance_matrix
                                /\ elem(p[2]) \in DOMAIN resonance_matrix[elem(p[1])]}
        value == [p \in found |-> resonance_matrix[elem(p[1])][elem(p[2])]]
    IN SumOver(found, value) \div Max(1, Cardinality(found))

_calculate_rarity(potency) ==
  IF potency >= 900 THEN "legendary"
  ELSE IF potency >= 700 THEN "epic"
  ELSE IF potency >= 500 THEN "rare"
  ELSE IF potency >= 300 THEN "uncommon"
  ELSE "common"

\* round(x, 2)
Round2(x) == ((x + 5) \div 10) * 10

\* ------------------------------------------------------------ random draws
\* Each random.uniform / randint / choice / sample is an input; a draw set
\* lists the sample points the model explores (the extremes of each range).

\* update_entropy_field: one record per firing, one delta per scalar
TickDraws ==
  << [flux |-> 50, resonance |-> [e \in EnclaveIds |-> 20],
      harmonic |-> [g \in Glyphs |-> 30], temporal |-> 10, volatility |-> 100],
     [flux |-> -50,
      resonance |-> [e \in EnclaveIds |-> IF e = "void_nexus" THEN 20 ELSE -20],
      harmonic |-> [g \in Glyphs |-> IF g = base_glyphs[1] THEN -30 ELSE 30],
      temporal |-> -10, volatility |-> -100] >>

\* fork_node: id suffix, glyph sample, sentience probability
ForkDraws ==
  << [suffix |-> 1000, glyph_state |-> <<base_glyphs[1], base_glyphs[2], base_glyphs[3]>>,
      sentience_probability |-> 100],
     [suffix |-> 9999, glyph_state |-> <<base_glyphs[5], base_glyphs[4], base_glyphs[3]>>,
      sentience_probability |-> 300] >>

\* collapse_node: sigil, randint(1, 5), randint(0, 3)
CollapseDraws ==
  << [sigil |-> base_glyphs[1], time_salt_generated |-> 1, fragments_released |-> 0],
     [sigil |-> base_glyphs[5], time_salt_generated |-> 5, fragments_released |-> 3] >>

\* ------------------------------------------------------------------- state
VARIABLES
  state_lock,          \* threading.Lock: "free" or the thread holding it
  pc,                  \* each thread's position
  frame,               \* each thread's locals
  entropy_field,       \* the outer dict; the two maps are references
  dict_objects,        \* the dict objects the references name
  time_salt,
  identity_fragments,
  fork_log,
  anomaly_echoes,
  sentient_logs,
  current_drift_map,
  exported,            \* what export_state / get_system_status returned, per thread
  witnessed,           \* the coordinator's values at the instant of that export
  clock,               \* logical clock behind datetime.now()
  calls,               \* calls started
  ticks,               \* timer firings started
  credited,            \* sum of the deltas of the completed operations
  known_combinations,
  combination_history,
  transmutation_count,
  mastery_level,
  last_call,           \* the last combine_glyphs call: its input and how it ended
  probe,               \* an encoder input, a permutation of it, and their keys
  save_file,           \* drift_save.json: absent, unparseable, or its JSON value
  saved_state,         \* the coordinator's values when the file's snapshot was exported
  loads                \* load_game_state calls started

coordVars == <<state_lock, pc, frame, entropy_field, dict_objects, time_salt,
               identity_fragments, fork_log, anomaly_echoes, sentient_logs,
               current_drift_map, exported, witnessed, clock, calls, ticks, credited,
               save_file, saved_state, loads>>

alchemyVars == <<known_combinations, combination_history, transmutation_count,
                 mastery_level, last_call, probe>>

vars == <<coordVars, alchemyVars>>

EnclaveRef == "enclave_resonance#0"

HarmonicsRef == "glyph_harmonics#0"

NoEntry == [time_salt |-> 0, identity_fragments |-> 0, log_len |-> 0, global_flux |-> 0,
            field |-> <<>>]

NoDelta == [time_salt |-> 0, identity_fragments |-> 0]

\* locals of a thread outside any call
NoFrame == [entry |-> NoEntry, draw |-> 0, rec |-> <<>>, tmp |-> 0, count |-> 0,
            delta |-> NoDelta, ret |-> "idle"]

\* the maps behind the references of an entropy_field dict
Deref(ef) == [global_flux |-> ef.global_flux,
              enclave_resonance |-> dict_objects[ef.enclave_resonance],
              glyph_harmonics |-> dict_objects[ef.glyph_harmonics],
              temporal_distortion |-> ef.temporal_distortion,
              market_volatility |-> ef.market_volatility]

\* the state the operation was admitted in
Entry == [time_salt |-> time_salt, identity_fragments |-> identity_fragments,
          log_len |-> Len(fork_log), global_flux |-> entropy_field.global_flux,
          field |-> Deref(entropy_field)]

\* initialize_entropy_field, and the fields a run of timer firings leads to:
\* a freshly initialized field, and the field saturated at either end of
\* every range.
FreshField ==
  [global_flux |-> 700, resonance |-> 500, harmonic |-> 20, temporal |-> 0, volatility |-> 900]

InitFields ==
  { FreshField,
    [global_flux |-> 1000, resonance |-> 1000, harmonic |-> 1000, temporal |-> 1000, volatility |-> 1000],
    [global_flux |-> 0, resonance |-> 0, harmonic |-> 0, temporal |-> -1000, volatility |-> 0] }

\* os.path.exists(self.save_file) is False
NoFile == [kind |-> "absent", data |-> <<>>]

\* DriftEngine.__init__, beside one of the files
InitSessionIn(fields, files) ==
  /\ state_lock = "free"
  /\ pc = [t \in Threads |-> "idle"]
  /\ frame = [t \in Threads |-> NoFrame]
  /\ \E f \in fields :
       /\ entropy_field = [global_flux |-> f.global_flux,
                           enclave_resonance |-> EnclaveRef,
                           glyph_harmonics |-> HarmonicsRef,
                           temporal_distortion |-> f.temporal,
                           market_volatility |-> f.volatility]
       /\ dict_objects = [r \in {EnclaveRef, HarmonicsRef} |->
                            IF r = EnclaveRef THEN [e \in EnclaveIds |-> f.resonance]
                            ELSE [g \in Glyphs |-> f.harmonic]]
  /\ time_salt = InitialTimeSalt
  /\ identity_fragments = InitialFragments
  /\ fork_log = <<>>
  /\ anomaly_echoes = <<>>
  /\ sentient_logs = <<>>
  /\ current_drift_map = <<>>
  /\ exported = [t \in Threads |-> <<>>]
  /\ witnessed = [t \in Threads |-> <<>>]
  /\ clock = 0
  /\ calls = 0
  /\ ticks = 0
  /\ credited = [time_salt |-> 0, identity_fragments |-> 0]
  /\ save_file \in files
  /\ saved_state = <<>>
  /\ loads = 0

InitCoordinatorIn(fields) == InitSessionIn(fields, {NoFile})

NoCall == [n |-> 0, glyphs |-> <<>>, raised |-> FALSE]

NoProbe == [glyphs |-> <<>>, permuted |-> <<>>, key |-> <<0, 0>>, permuted_key |-> <<0, 0>>,
            done |-> FALSE]

InitCoordinator == InitCoordinatorIn(InitFields)

\* AlchemySystem.__init__
InitAlchemy ==
  /\ known_combinations = initialize_base_combinations
  /\ combination_history = <<>>
  /\ transmutation_count = 0
  /\ mastery_level = 0
  /\ last_call = NoCall
  /\ probe = NoProbe

Init == InitCoordinator /\ InitAlchemy

\* ------------------------------------------------------- the exclusive section
fieldVars == <<entropy_field, dict_objects>>

ledgerVars == <<time_salt, identity_fragments>>

logVars == <<fork_log, anomaly_echoes, sentient_logs, current_drift_map>>

exportVars == <<exported, witnessed>>

persistVars == <<save_file, saved_state, loads>>

AcquireLabels == {"tick_acquire", "fork_acquire", "collapse_acquire", "wipe_acquire",
                  "scan_acquire", "initdef_acquire", "export_acquire", "status_acquire",
                  "import_acquire"}

BodyStart(l) ==
  CASE l = "tick_acquire" -> "tick_flux"
    [] l = "fork_acquire" -> "fork_build"
    [] l = "collapse_acquire" -> "collapse_build"
    [] l = "wipe_acquire" -> "wipe_echo"
    [] l = "scan_acquire" -> "scan_build"
    [] l = "initdef_acquire" -> "initdef_scan"
    [] l = "export_acquire" -> "export_build"
    [] l = "status_acquire" -> "status_build"
    [] l = "import_acquire" -> "import_build"

\* "import_raise": the `with` block left by an exception
ReturnLabels == {"tick_return", "fork_return", "collapse_return", "wipe_return",
                 "scan_return", "export_return", "status_return", "import_return",
                 "import_raise"}

Goto(t, l) == pc' = [pc EXCEPT ![t] = l]

\* an entry that does not wait for the lock
AcquireUnguarded(t) ==
  /\ pc[t] \in AcquireLabels
  /\ state_lock' = t
  /\ Goto(t, BodyStart(pc[t]))
  /\ frame' = [frame EXCEPT ![t].entry = Entry]
  /\ UNCHANGED <<fieldVars, ledgerVars, logVars, exportVars, persistVars, clock, calls, ticks, credited>>
  /\ UNCHANGED alchemyVars

\* a non-blocking entry: the timer thread gives its firing up when the lock is held
AcquireOrDrop(t) ==
  /\ pc[t] \in AcquireLabels
  /\ IF state_lock = "free"
       THEN /\ state_lock' = t
            /\ Goto(t, BodyStart(pc[t]))
            /\ frame' = [frame EXCEPT ![t].entry = Entry]
       ELSE /\ t = TimerThread
            /\ Goto(t, "idle")
            /\ UNCHANGED <<state_lock, frame>>
  /\ UNCHANGED <<fieldVars, ledgerVars, logVars, exportVars, persistVars, clock, calls, ticks, credited>>
  /\ UNCHANGED alchemyVars

\* `with self.state_lock:` entry: blocks until the lock is free
Acquire(t) ==
  /\ pc[t] \in AcquireLabels
  /\ state_lock = "free"
  /\ state_lock' = t
  /\ Goto(t, BodyStart(pc[t]))
  /\ frame' = [frame EXCEPT ![t].entry = Entry]
  /\ UNCHANGED <<fieldVars, ledgerVars, logVars, exportVars, persistVars, clock, calls, ticks, credited>>
  /\ UNCHANGED alchemyVars

\* the `with` block's exit and the return; the operation is complete
Release(t) ==
  /\ pc[t] \in ReturnLabels
  /\ state_lock' = "free"
  /\ Goto(t, frame[t].ret)
  /\ credited' = [time_salt |-> credited.time_salt + frame[t].delta.time_salt,
                  identity_fragments |->
                    credited.identity_fragments + frame[t].delta.identity_fragments]
  /\ frame' = [frame EXCEPT ![t] = NoFrame]
  /\ UNCHANGED <<fieldVars, ledgerVars, logVars, exportVars, persistVars, clock, calls, ticks>>
  /\ UNCHANGED alchemyVars

\* --------------------------------------------------- update_entropy_field
\* entropy_update_loop: the timer thread fires update_entropy_field
TimerFires(t) ==
  /\ t = TimerThread
  /\ pc[t] = "idle"
  /\ ticks < MaxTicks
  /\ ticks' = ticks + 1
  /\ Goto(t, "tick_acquire")
  /\ UNCHANGED <<state_lock, frame, fieldVars, ledgerVars, logVars, exportVars, persistVars,
                 clock, calls, credited>>
  /\ UNCHANGED alchemyVars

TickFrame(t) ==
  UNCHANGED <<state_lock, ledgerVars, logVars, exportVars, persistVars, clock, calls, ticks, credited>>
  /\ UNCHANGED alchemyVars

\* global flux fluctuation
tick_flux(t) ==
  /\ pc[t] = "tick_flux"
  /\ \E d \in 1..Len(TickDraws) :
       /\ frame' = [frame EXCEPT ![t].draw = d]
       /\ entropy_field' = [entropy_field EXCEPT
            !.global_flux = Clamp(0, Scale, @ + TickDraws[d].flux)]
  /\ Goto(t, "tick_resonance")
  /\ UNCHANGED dict_objects
  /\ TickFrame(t)

\* every enclave resonance, in place
tick_resonance(t) ==
  /\ pc[t] = "tick_resonance"
  /\ dict_objects' = [dict_objects EXCEPT ![entropy_field.enclave_resonance] =
       [e \in DOMAIN @ |-> Clamp(0, Scale, @[e] + TickDraws[frame[t].draw].resonance[e])]]
  /\ Goto(t, "tick_harmonics")
  /\ UNCHANGED <<entropy_field, frame>>
  /\ TickFrame(t)

\* a harmonics update that rebuilds the map without the glyphs that fell
tick_harmonics_pruned(t) ==
  /\ pc[t] = "tick_harmonics"
  /\ dict_objects' = [dict_objects EXCEPT ![entropy_field.glyph_harmonics] =
       [g \in {h \in DOMAIN @ : TickDraws[frame[t].draw].harmonic[h] >= 0} |->
          Clamp(0, Scale, @[g] + TickDraws[frame[t].draw].harmonic[g])]]
  /\ Goto(t, "tick_temporal")
  /\ UNCHANGED <<entropy_field, frame>>
  /\ TickFrame(t)

\* every glyph harmonic, in place
tick_harmonics(t) ==
  /\ pc[t] = "tick_harmonics"
  /\ dict_objects' = [dict_objects EXCEPT ![entropy_field.glyph_harmonics] =
       [g \in DOMAIN @ |-> Clamp(0, Scale, @[g] + TickDraws[frame[t].draw].harmonic[g])]]
  /\ Goto(t, "tick_temporal")
  /\ UNCHANGED <<entropy_field, frame>>
  /\ TickFrame(t)

tick_temporal(t) ==
  /\ pc[t] = "tick_temporal"
  /\ entropy_field' = [entropy_field EXCEPT
       !.temporal_distortion = Clamp(-Scale, Scale, @ + TickDraws[frame[t].draw].temporal)]
  /\ Goto(t, "tick_volatility")
  /\ UNCHANGED <<dict_objects, frame>>
  /\ TickFrame(t)

tick_volatility(t) ==
  /\ pc[t] = "tick_volatility"
  /\ entropy_field' = [entropy_field EXCEPT
       !.market_volatility = Clamp(0, Scale, @ + TickDraws[frame[t].draw].volatility)]
  /\ Goto(t, "tick_return")
  /\ UNCHANGED <<dict_objects, frame>>
  /\ TickFrame(t)

update_entropy_field(t) ==
  \/ tick_flux(t)
  \/ tick_resonance(t)
  \/ tick_harmonics(t)
  \/ tick_temporal(t)
  \/ tick_volatility(t)

\* ------------------------------------------------------------ caller threads
CallerOps == {"fork_acquire", "collapse_acquire", "wipe_acquire", "scan_acquire",
              "initdef_acquire", "export_acquire", "status_acquire"}

\* a caller thread invokes a coordinator operation
Call(t) ==
  /\ t \in Callers
  /\ pc[t] = "idle"
  /\ calls < MaxCalls
  /\ calls' = calls + 1
  /\ \E l \in CallerOps : Goto(t, l)
  /\ UNCHANGED <<state_lock, frame, fieldVars, ledgerVars, logVars, exportVars, persistVars,
                 clock, ticks, credited>>
  /\ UNCHANGED alchemyVars

\* ----------------------------------------------------------------- fork_node
\* "Unknown": active_enclave is None
UnknownEnclave == <<85, 110, 107, 110, 111, 119, 110>>

\* ChronoSystem.get_current_signature()
temporal_signature == <<97, 49, 98, 50, 99, 51, 100, 52, 101, 53, 102, 54>>

\* create_sentient_log(log_id, ...)
create_sentient_log(log_id) ==
  sentient_logs' = Append(sentient_logs,
                          [log_id |-> Str(log_id), creation_timestamp |-> Str(Digits(clock))])

\* a fork that pays the rewards of the terminal engine's fork
fork_build_rewarded(t) ==
  /\ pc[t] = "fork_build"
  /\ \E i \in 1..Len(ForkDraws) :
       LET fork_id == node_id \o <<45>> \o Digits(ForkDraws[i].suffix)
           fork_state ==
             [node_id |-> Str(fork_id),
              timestamp |-> Str(Digits(clock)),
              parent_node |-> Str(node_id),
              glyph_state |-> List(ForkDraws[i].glyph_state),
              entropy_level |-> Num(entropy_field.global_flux),
              enclave_origin |-> Str(UnknownEnclave),
              temporal_signature |-> Str(temporal_signature),
              alchemy_potential |-> Other,
              sentience_probability |-> Num(ForkDraws[i].sentience_probability)]
       IN /\ frame' = [frame EXCEPT ![t].rec = <<fork_state>>]
          /\ fork_log' = Append(fork_log, fork_state)
  /\ clock' = clock + 1
  /\ Goto(t, "fork_sentient")
  /\ time_salt' = time_salt + 2
  /\ identity_fragments' = identity_fragments + 1
  /\ UNCHANGED <<state_lock, fieldVars, anomaly_echoes, sentient_logs,
                 current_drift_map, exportVars, persistVars, calls, ticks, credited>>
  /\ UNCHANGED alchemyVars

\* the fork_state dict (lines 149-162) and its append to fork_log
fork_build(t) ==
  /\ pc[t] = "fork_build"
  /\ \E i \in 1..Len(ForkDraws) :
       LET fork_id == node_id \o <<45>> \o Digits(ForkDraws[i].suffix)
           fork_state ==
             [node_id |-> Str(fork_id),
              timestamp |-> Str(Digits(clock)),
              parent_node |-> Str(node_id),
              glyph_state |-> List(ForkDraws[i].glyph_state),
              entropy_level |-> Num(entropy_field.global_flux),
              enclave_origin |-> Str(UnknownEnclave),
              temporal_signature |-> Str(temporal_signature),
              alchemy_potential |-> Other,
              sentience_probability |-> Num(ForkDraws[i].sentience_probability)]
       IN /\ frame' = [frame EXCEPT ![t].rec = <<fork_state>>]
          /\ fork_log' = Append(fork_log, fork_state)
  /\ clock' = clock + 1
  /\ Goto(t, "fork_sentient")
  /\ UNCHANGED <<state_lock, fieldVars, ledgerVars, anomaly_echoes, sentient_logs,
                 current_drift_map, exportVars, persistVars, calls, ticks, credited>>
  /\ UNCHANGED alchemyVars

\* sentient log emergence
fork_sentient(t) ==
  /\ pc[t] = "fork_sentient"
  /\ IF NumVal(frame[t].rec[1].sentience_probability) > SentienceThreshold
       THEN create_sentient_log(frame[t].rec[1].node_id.v)
       ELSE UNCHANGED sentient_logs
  /\ Goto(t, "fork_flux")
  /\ UNCHANGED <<state_lock, frame, fieldVars, ledgerVars, fork_log, anomaly_echoes,
                 current_drift_map, exportVars, persistVars, clock, calls, ticks, credited>>
  /\ UNCHANGED alchemyVars

\* self.entropy_field['global_flux'] *= 1.05
fork_flux(t) ==
  /\ pc[t] = "fork_flux"
  /\ entropy_field' = [entropy_field EXCEPT !.global_flux = Scaled(@, ForkFactor)]
  /\ Goto(t, "fork_return")
  /\ UNCHANGED <<state_lock, frame, dict_objects, ledgerVars, logVars, exportVars, persistVars,
                 clock, calls, ticks, credited>>
  /\ UNCHANGED alchemyVars

fork_node(t) == fork_build(t) \/ fork_sentient(t) \/ fork_flux(t)

\* ------------------------------------------------------- anomaly echoes
\* the block glyph
Block == 9608

Blocks(n) == [i \in 1..n |-> Block]

\* "###"
Placeholder == <<35, 35, 35>>

\* a value whose type no branch handles
Raised == [t |-> "raised", v |-> <<>>]

\* the replacement without its final `else` branch
FractureValueNoElse(x) ==
  LET n == Len(x.v)
      half == n \div 2
  IN CASE x.t = "str" ->
            IF n > 3 THEN Str(SubSeq(x.v, 1, half) \o Blocks(half)) ELSE Str(Blocks(n))
       [] x.t = "num" -> Str(Placeholder)
       [] x.t = "list" -> List(SubSeq(x.v, 1, half) \o Blocks(half))
       [] OTHER -> Raised

\* the replacement _fracture_data gives a value it corrupts
FractureValue(x) ==
  LET n == Len(x.v)
      half == n \div 2
  IN CASE x.t = "str" ->
            IF n > 3 THEN Str(SubSeq(x.v, 1, half) \o Blocks(half)) ELSE Str(Blocks(n))
       [] x.t = "num" -> Str(Placeholder)
       [] x.t = "list" -> List(SubSeq(x.v, 1, half) \o Blocks(half))
       [] OTHER -> Str(Blocks(5))

\* a _fracture_data without its `else: fractured[key] = value`
_fracture_data_selected(data, corrupt) ==
  [k \in DOMAIN data \cap corrupt |-> FractureValue(data[k])]

\* _fracture_data, `corrupt` the fields whose random.random() fell below 0.3
_fracture_data(data, corrupt) ==
  [k \in DOMAIN data |-> IF k \in corrupt THEN FractureValue(data[k]) ELSE data[k]]

\* the dict passed in, after the call: the loop reads data.items() and assigns
\* into the new dict `fractured` only
_fracture_data_input(data, corrupt) == data

\* the fields the model corrupts together
FractureMasks == { {}, {"node_id", "entropy_level", "glyph_state", "alchemy_potential"} }

\* source_data.get('action', 'fork')
SourceType(source_data) ==
  IF "action" \in DOMAIN source_data THEN "collapse" ELSE "fork"

\* a create_anomaly_echo that stores the source beside the corrupted copy
create_anomaly_echo_both(source_data, fractured, corrupt) ==
  IF fractured
    THEN [timestamp |-> Str(Digits(clock)), source_type |-> SourceType(source_data),
          fractured |-> TRUE, corrupted_data |-> _fracture_data(source_data, corrupt),
          source_data |-> source_data]
    ELSE [timestamp |-> Str(Digits(clock)), source_type |-> SourceType(source_data),
          fractured |-> FALSE, source_data |-> source_data]

\* create_anomaly_echo; echo_id, entropy_signature, temporal_drift and
\* echo_strength are random display values and are left out
create_anomaly_echo(source_data, fractured, corrupt) ==
  IF fractured
    THEN [timestamp |-> Str(Digits(clock)), source_type |-> SourceType(source_data),
          fractured |-> TRUE, corrupted_data |-> _fracture_data(source_data, corrupt)]
    ELSE [timestamp |-> Str(Digits(clock)), source_type |-> SourceType(source_data),
          fractured |-> FALSE, source_data |-> source_data]

\* -------------------------------------------------------------- collapse_node
collapse_word == <<99, 111, 108, 108, 97, 112, 115, 101>>

erased_word == <<101, 114, 97, 115, 101, 100>>

\* round(x * 0.1, 3)
Tenth(x) == (x + 5) \div 10

\* the collapse_result dict (lines 181-190)
collapse_build(t) ==
  /\ pc[t] = "collapse_build"
  /\ \E i \in 1..Len(CollapseDraws) :
       LET collapse_result ==
             [node_id |-> Str(node_id),
              action |-> Str(collapse_word),
              status |-> Str(erased_word),
              sigil |-> Str(<<CollapseDraws[i].sigil>>),
              timestamp |-> Str(Digits(clock)),
              entropy_release |-> Num(Tenth(entropy_field.global_flux)),
              time_salt_generated |-> Num(CollapseDraws[i].time_salt_generated),
              fragments_released |-> Num(CollapseDraws[i].fragments_released)]
       IN frame' = [frame EXCEPT
            ![t].rec = <<collapse_result>>,
            ![t].delta = [time_salt |-> CollapseDraws[i].time_salt_generated,
                          identity_fragments |-> CollapseDraws[i].fragments_released]]
  /\ clock' = clock + 1
  /\ Goto(t, "collapse_salt_load")
  /\ UNCHANGED <<state_lock, fieldVars, ledgerVars, logVars, exportVars, persistVars, calls, ticks,
                 credited>>
  /\ UNCHANGED alchemyVars

\* self.time_salt += ...: the load
collapse_salt_load(t) ==
  /\ pc[t] = "collapse_salt_load"
  /\ frame' = [frame EXCEPT ![t].tmp = time_salt]
  /\ Goto(t, "collapse_salt_store")
  /\ UNCHANGED <<state_lock, fieldVars, ledgerVars, logVars, exportVars, persistVars, clock, calls,
                 ticks, credited>>
  /\ UNCHANGED alchemyVars

\* a collapse that debits the ledger instead of crediting it
collapse_salt_store_debit(t) ==
  /\ pc[t] = "collapse_salt_store"
  /\ time_salt' = frame[t].tmp - NumVal(frame[t].rec[1].time_salt_generated)
  /\ Goto(t, "collapse_frag_load")
  /\ UNCHANGED <<state_lock, frame, fieldVars, identity_fragments, logVars, exportVars, persistVars,
                 clock, calls, ticks, credited>>
  /\ UNCHANGED alchemyVars

\* self.time_salt += ...: the store
collapse_salt_store(t) ==
  /\ pc[t] = "collapse_salt_store"
  /\ time_salt' = frame[t].tmp + NumVal(frame[t].rec[1].time_salt_generated)
  /\ Goto(t, "collapse_frag_load")
  /\ UNCHANGED <<state_lock, frame, fieldVars, identity_fragments, logVars, exportVars, persistVars,
                 clock, calls, ticks, credited>>
  /\ UNCHANGED alchemyVars

collapse_frag_load(t) ==
  /\ pc[t] = "collapse_frag_load"
  /\ frame' = [frame EXCEPT ![t].tmp = identity_fragments]
  /\ Goto(t, "collapse_frag_store")
  /\ UNCHANGED <<state_lock, fieldVars, ledgerVars, logVars, exportVars, persistVars, clock, calls,
                 ticks, credited>>
  /\ UNCHANGED alchemyVars

collapse_frag_store(t) ==
  /\ pc[t] = "collapse_frag_store"
  /\ identity_fragments' = frame[t].tmp + NumVal(frame[t].rec[1].fragments_released)
  /\ Goto(t, "collapse_flux")
  /\ UNCHANGED <<state_lock, frame, fieldVars, time_salt, logVars, exportVars, persistVars,
                 clock, calls, ticks, credited>>
  /\ UNCHANGED alchemyVars

\* self.entropy_field['global_flux'] *= 0.95
collapse_flux(t) ==
  /\ pc[t] = "collapse_flux"
  /\ entropy_field' = [entropy_field EXCEPT !.global_flux = Scaled(@, CollapseFactor)]
  /\ Goto(t, "collapse_echo")
  /\ UNCHANGED <<state_lock, frame, dict_objects, ledgerVars, logVars, exportVars, persistVars,
                 clock, calls, ticks, credited>>
  /\ UNCHANGED alchemyVars

\* the unfractured echo of the collapse
collapse_echo(t) ==
  /\ pc[t] = "collapse_echo"
  /\ anomaly_echoes' = Append(anomaly_echoes,
                              create_anomaly_echo(frame[t].rec[1], FALSE, {}))
  /\ Goto(t, "collapse_return")
  /\ UNCHANGED <<state_lock, frame, fieldVars, ledgerVars, fork_log, sentient_logs,
                 current_drift_map, exportVars, persistVars, clock, calls, ticks, credited>>
  /\ UNCHANGED alchemyVars

collapse_node(t) ==
  \/ collapse_build(t)
  \/ collapse_salt_load(t)
  \/ collapse_salt_store(t)
  \/ collapse_frag_load(t)
  \/ collapse_frag_store(t)
  \/ collapse_flux(t)
  \/ collapse_echo(t)

\* --------------------------------------------------------------- memory_wipe
\* random.sample(log, k): k distinct positions, in any order
Samples(n, k) ==
  {s \in [1..k -> 1..n] : \A i, j \in 1..k : i # j => s[i] # s[j]}

\* a wipe that samples with replacement (random.choices)
wipe_echo_repeat(t) ==
  /\ pc[t] = "wipe_echo"
  /\ LET k == Min(3, Len(fork_log))
     IN \E s \in [1..k -> 1..Len(fork_log)] :
          \E m \in [1..k -> FractureMasks] :
            anomaly_echoes' = anomaly_echoes \o
              [i \in 1..k |-> create_anomaly_echo(fork_log[s[i]], TRUE, m[i])]
  /\ Goto(t, "wipe_clear")
  /\ UNCHANGED <<state_lock, frame, fieldVars, ledgerVars, fork_log, sentient_logs,
                 current_drift_map, exportVars, persistVars, clock, calls, ticks, credited>>
  /\ UNCHANGED alchemyVars

\* fractured echoes of up to 3 sampled forks (lines 209-212)
wipe_echo(t) ==
  /\ pc[t] = "wipe_echo"
  /\ LET k == Min(3, Len(fork_log))
     IN \E s \in Samples(Len(fork_log), k) :
          \E m \in [1..k -> FractureMasks] :
            anomaly_echoes' = anomaly_echoes \o
              [i \in 1..k |-> create_anomaly_echo(fork_log[s[i]], TRUE, m[i])]
  /\ Goto(t, "wipe_clear")
  /\ UNCHANGED <<state_lock, frame, fieldVars, ledgerVars, fork_log, sentient_logs,
                 current_drift_map, exportVars, persistVars, clock, calls, ticks, credited>>
  /\ UNCHANGED alchemyVars

\* wiped_count = len(self.fork_log); self.fork_log = []
wipe_clear(t) ==
  /\ pc[t] = "wipe_clear"
  /\ frame' = [frame EXCEPT ![t].count = Len(fork_log)]
  /\ fork_log' = <<>>
  /\ Goto(t, "wipe_salt_load")
  /\ UNCHANGED <<state_lock, fieldVars, ledgerVars, anomaly_echoes, sentient_logs,
                 current_drift_map, exportVars, persistVars, clock, calls, ticks, credited>>
  /\ UNCHANGED alchemyVars

\* a wipe that credits three per erased fork
wipe_salt_load_triple(t) ==
  /\ pc[t] = "wipe_salt_load"
  /\ frame' = [frame EXCEPT
       ![t].tmp = time_salt,
       ![t].delta = [time_salt |-> frame[t].count * 3, identity_fragments |-> 0]]
  /\ Goto(t, "wipe_salt_store")
  /\ UNCHANGED <<state_lock, fieldVars, ledgerVars, logVars, exportVars, persistVars, clock, calls,
                 ticks, credited>>
  /\ UNCHANGED alchemyVars

\* salt_generated = wiped_count * 2, and the load of self.time_salt += ...
wipe_salt_load(t) ==
  /\ pc[t] = "wipe_salt_load"
  /\ frame' = [frame EXCEPT
       ![t].tmp = time_salt,
       ![t].delta = [time_salt |-> frame[t].count * 2, identity_fragments |-> 0]]
  /\ Goto(t, "wipe_salt_store")
  /\ UNCHANGED <<state_lock, fieldVars, ledgerVars, logVars, exportVars, persistVars, clock, calls,
                 ticks, credited>>
  /\ UNCHANGED alchemyVars

wipe_salt_store(t) ==
  /\ pc[t] = "wipe_salt_store"
  /\ time_salt' = frame[t].tmp + frame[t].delta.time_salt
  /\ Goto(t, "wipe_flux")
  /\ UNCHANGED <<state_lock, frame, fieldVars, identity_fragments, logVars, exportVars, persistVars,
                 clock, calls, ticks, credited>>
  /\ UNCHANGED alchemyVars

\* self.entropy_field['global_flux'] = 0.5
wipe_flux(t) ==
  /\ pc[t] = "wipe_flux"
  /\ entropy_field' = [entropy_field EXCEPT !.global_flux = FluxMidpoint]
  /\ Goto(t, "wipe_return")
  /\ UNCHANGED <<state_lock, frame, dict_objects, ledgerVars, logVars, exportVars, persistVars,
                 clock, calls, ticks, credited>>
  /\ UNCHANGED alchemyVars

memory_wipe(t) ==
  \/ wipe_echo(t)
  \/ wipe_clear(t)
  \/ wipe_salt_load(t)
  \/ wipe_salt_store(t)
  \/ wipe_flux(t)

\* -------------------------------- forks, collapses and wipes of one caller
\* the fork, collapse and wipe buttons (action_fork, action_collapse,
\* action_memory_wipe)
WipeCall(t) ==
  /\ t = "ui"
  /\ pc[t] = "idle"
  /\ calls < MaxWipeCalls
  /\ calls' = calls + 1
  /\ Goto(t, "fork_acquire") \/ Goto(t, "collapse_acquire") \/ Goto(t, "wipe_acquire")
  /\ UNCHANGED <<state_lock, frame, fieldVars, ledgerVars, logVars, exportVars, persistVars,
                 clock, ticks, credited>>
  /\ UNCHANGED alchemyVars

NextWipe ==
  \E t \in Threads :
    \/ WipeCall(t)
    \/ Acquire(t)
    \/ fork_node(t)
    \/ collapse_node(t)
    \/ memory_wipe(t)
    \/ Release(t)

SpecWipe == Init /\ [][NextWipe]_vars

\* -------------------------------------------------------- generate_drift_map
\* Each finished row is appended to itself (row.append(row)), never to
\* drift_map: the map assigned and returned is the empty list.
drift_map_built == <<>>

\* a sampling pool that leaves out the max(1, ...)
weighted_glyphs_no_floor ==
  LET harmonics == dict_objects[entropy_field.glyph_harmonics]
  IN [glyph \in Glyphs |->
        LET weight == IF glyph \in DOMAIN harmonics THEN harmonics[glyph] ELSE 500
        IN (weight * 10) \div Scale]

\* lines 131-134: how many entries of the sampling pool each glyph gets,
\* max(1, int(weight * 10)) with weight = glyph_harmonics.get(glyph, 0.5)
weighted_glyphs ==
  LET harmonics == dict_objects[entropy_field.glyph_harmonics]
  IN [glyph \in Glyphs |->
        LET weight == IF glyph \in DOMAIN harmonics THEN harmonics[glyph] ELSE 500
        IN Max(1, (weight * 10) \div Scale)]

\* the pool of the last cell stays in the frame until the call returns
generate_drift_map(t) ==
  /\ pc[t] = "scan_build"
  /\ current_drift_map' = <<drift_map_built>>
  /\ frame' = [frame EXCEPT ![t].rec = <<weighted_glyphs>>]
  /\ Goto(t, "scan_return")
  /\ UNCHANGED <<state_lock, fieldVars, ledgerVars, fork_log, anomaly_echoes,
                 sentient_logs, exportVars, persistVars, clock, calls, ticks, credited>>
  /\ UNCHANGED alchemyVars

\* -------------------------------------------------- initialize_default_state
\* line 62, inside `with self.state_lock:`: the call of generate_drift_map,
\* which begins with its own `with self.state_lock:`
initialize_default_state(t) ==
  /\ pc[t] = "initdef_scan"
  /\ frame' = [frame EXCEPT ![t].ret = "initdef_enclave"]
  /\ Goto(t, "scan_acquire")
  /\ UNCHANGED <<state_lock, fieldVars, ledgerVars, logVars, exportVars, persistVars, clock, calls,
                 ticks, credited>>
  /\ UNCHANGED alchemyVars

\* ------------------------------------------ export_state, get_system_status
\* dict.copy() of entropy_field: the scalars by value, the two maps by reference
ShallowCopy(ef) == ef

alchemy_export_state ==
  [known_combinations |-> known_combinations,
   combination_history |-> combination_history,
   transmutation_count |-> transmutation_count,
   mastery_level |-> mastery_level]

export_dict ==
  [time_salt |-> time_salt,
   identity_fragments |-> identity_fragments,
   fork_log |-> fork_log,
   anomaly_echoes |-> anomaly_echoes,
   sentient_logs |-> sentient_logs,
   entropy_field |-> ShallowCopy(entropy_field),
   alchemy_state |-> alchemy_export_state]

status_dict ==
  [entropy_level |-> entropy_field.global_flux,
   time_salt |-> time_salt,
   identity_fragments |-> identity_fragments,
   fork_count |-> Len(fork_log),
   anomaly_count |-> Len(anomaly_echoes),
   sentient_logs |-> Len(sentient_logs),
   entropy_field |-> ShallowCopy(entropy_field),
   alchemy_combinations |-> Cardinality(DOMAIN known_combinations)]

\* a returned dict as its holder reads it: the maps are those the references name now
View(d) == [d EXCEPT !.entropy_field = Deref(@)]

export_state(t) ==
  /\ pc[t] = "export_build"
  /\ exported' = [exported EXCEPT ![t] = <<export_dict>>]
  /\ witnessed' = [witnessed EXCEPT ![t] = <<View(export_dict)>>]
  /\ Goto(t, "export_return")
  /\ UNCHANGED <<state_lock, frame, fieldVars, ledgerVars, logVars, clock, calls, ticks,
                 credited, persistVars>>
  /\ UNCHANGED alchemyVars

get_system_status(t) ==
  /\ pc[t] = "status_build"
  /\ exported' = [exported EXCEPT ![t] = <<status_dict>>]
  /\ witnessed' = [witnessed EXCEPT ![t] = <<View(status_dict)>>]
  /\ Goto(t, "status_return")
  /\ UNCHANGED <<state_lock, frame, fieldVars, ledgerVars, logVars, clock, calls, ticks,
                 credited, persistVars>>
  /\ UNCHANGED alchemyVars

\* ------------------------------------------------------------ combine_glyphs
MasteryCeiling == 10000
MasteryGain == 10
HistoryLimit == 1000
HistoryKeep == 500
MaxDiscoveryChance == 800

\* the token lists the model submits: seeded pairs and triples and
\* permutations of them, pairs of every resonance, tokens outside the base
\* glyphs, a repeated token, and arities 1, 5 and 6
AlchemyInputs ==
  { <<base_glyphs[1], base_glyphs[2]>>,
    <<base_glyphs[2], base_glyphs[1]>>,
    <<base_glyphs[3], base_glyphs[4]>>,
    <<base_glyphs[1], base_glyphs[5]>>,
    <<base_glyphs[5], base_glyphs[1]>>,
    <<base_glyphs[4], base_glyphs[4]>>,
    <<base_glyphs[5], base_glyphs[2], base_glyphs[4]>>,
    <<9674, 10209>>,
    <<base_glyphs[1]>>,
    <<base_glyphs[1], base_glyphs[2], base_glyphs[3], base_glyphs[4], base_glyphs[5]>>,
    <<base_glyphs[1], base_glyphs[1], base_glyphs[1], base_glyphs[1], base_glyphs[1],
      base_glyphs[1]>> }

\* random.random(), in thousandths
Rolls == {0, 999}

\* _calculate_entropy_influence: base_entropy, and where in its range the
\* second uniform() falls (u / 1000 of the way)
EntropyDraws == << [base_entropy |-> 750, u |-> 1000], [base_entropy |-> 500, u |-> 0] >>

\* _generate_new_combination: the hybrid glyph, the name and property tags
\* (random text from tables keyed by the inputs' elements), and the potency
\* noise of random.uniform(0.0, 0.2): 0.056, which leaves the potency of a
\* void-change pair just under 0.9, and the top of the range
NewDraws ==
  << [result_glyph |-> 10209, name |-> "Void Synthesis",
      properties |-> <<"absorption", "nullification">>, noise |-> 56],
     [result_glyph |-> 10698, name |-> "Surge Amalgam",
      properties |-> <<"chaos", "intensity">>, noise |-> 200] >>

\* _generate_failure_result's random name and effect
FailureDraws == << [name |-> "Resonance Collapse", effect |-> "glyph_scatter"] >>

_calculate_entropy_influence(ed) ==
  LET between(lo, hi) == lo + ((hi - lo) * ed.u) \div Scale
  IN IF ed.base_entropy > 700 THEN between(700, 1300)
     ELSE IF ed.base_entropy < 300 THEN between(900, 1100)
     ELSE between(800, 1200)

_execute_known_combination(pattern_key, glyphs, ed, roll) ==
  LET base_result == known_combinations[pattern_key]
      mastery_bonus == mastery_level \div 10
      potency == Min(Scale, base_result.potency + mastery_bonus)
      entropy_modifier == _calculate_entropy_influence(ed)
      stability == (base_result.stability * entropy_modifier) \div Scale
      success_chance == (stability * (500 + mastery_bonus)) \div Scale
      success == roll < success_chance
  IN IF success
       THEN [type |-> "known_combination", success |-> TRUE, pattern_key |-> pattern_key,
             input_glyphs |-> glyphs, timestamp |-> Str(Digits(clock)),
             mastery_bonus |-> mastery_bonus, entropy_modifier |-> entropy_modifier,
             result_glyph |-> base_result.result_glyph, name |-> base_result.name,
             properties |-> base_result.properties, potency |-> potency,
             stability |-> stability, rarity |-> _calculate_rarity(potency)]
       ELSE [type |-> "known_combination", success |-> FALSE, pattern_key |-> pattern_key,
             input_glyphs |-> glyphs, timestamp |-> Str(Digits(clock)),
             mastery_bonus |-> mastery_bonus, entropy_modifier |-> entropy_modifier,
             result_glyph |-> 10007, name |-> FailureDraws[1].name,
             properties |-> <<"unstable", "dangerous">>, effect |-> FailureDraws[1].effect,
             potency |-> 0, stability |-> 0, entropy_cost |-> 50, rarity |-> "failure"]

\* a base_result that is the stored dict itself: the potency and stability
\* assignments of lines 178 and 182 land in the registry
base_result_aliased(pattern_key, ed) ==
  LET base_result == known_combinations[pattern_key]
      mastery_bonus == mastery_level \div 10
      potency == Min(Scale, base_result.potency + mastery_bonus)
      stability == (base_result.stability * _calculate_entropy_influence(ed)) \div Scale
  IN [known_combinations EXCEPT ![pattern_key] =
        [base_result EXCEPT !.potency = potency, !.stability = stability]]

\* known_combinations after _execute_known_combination: base_result is a
\* .copy() of the stored dict (line 174), its two assignments stay in the copy,
\* and the properties list goes into the result as a copy of its own
base_result_copy(pattern_key, ed) == known_combinations

\* a _generate_new_combination without the min and max around its stats
_generate_new_combination_unclamped(glyphs, resonance, nd) ==
  LET complexity_factor == Len(glyphs) * 200
      potency == (resonance * 800) \div Scale + (complexity_factor * 300) \div Scale + nd.noise
      stability == (resonance * 900) \div Scale - (complexity_factor * 200) \div Scale
      entropy_cost == (complexity_factor * 200) \div Scale + ((Scale - resonance) * 100) \div Scale
  IN [result_glyph |-> nd.result_glyph, name |-> nd.name, properties |-> nd.properties,
      potency |-> Round2(potency), stability |-> Round2(stability),
      entropy_cost |-> Round2(entropy_cost), rarity |-> _calculate_rarity(potency)]

_generate_new_combination(glyphs, resonance, nd) ==
  LET complexity_factor == Len(glyphs) * 200
      potency == Min(Scale, (resonance * 800) \div Scale + (complexity_factor * 300) \div Scale
                            + nd.noise)
      stability == Max(100, Min(900, (resonance * 900) \div Scale
                                     - (complexity_factor * 200) \div Scale))
      entropy_cost == (complexity_factor * 200) \div Scale + ((Scale - resonance) * 100) \div Scale
  IN [result_glyph |-> nd.result_glyph, name |-> nd.name, properties |-> nd.properties,
      potency |-> Round2(potency), stability |-> Round2(stability),
      entropy_cost |-> Round2(entropy_cost), rarity |-> _calculate_rarity(potency)]

\* a discovery that keeps no record
store_nothing(registry, pattern_key, new_combination) == registry

\* self.known_combinations[pattern_key] = {...}
store_combination(registry, pattern_key, new_combination) ==
  [k \in DOMAIN registry \cup {pattern_key} |->
     IF k = pattern_key
       THEN [result_glyph |-> new_combination.result_glyph,
             name |-> new_combination.name,
             properties |-> new_combination.properties,
             potency |-> new_combination.potency,
             stability |-> new_combination.stability,
             entropy_cost |-> new_combination.entropy_cost]
       ELSE registry[k]]

\* a discovery that stores the combination whatever the roll, and fails
_discover_new_combination_eager(glyphs, roll, nd) ==
  LET total_resonance == _calculate_total_resonance(glyphs)
      discovery_chance == Min(MaxDiscoveryChance,
                              (total_resonance * 300) \div Scale + mastery_level \div 10)
      new_combination == _generate_new_combination(glyphs, total_resonance, nd)
      pattern_key == _generate_pattern_key(glyphs)
  IN [result |->
        [type |-> "new_discovery", success |-> FALSE, input_glyphs |-> glyphs,
         timestamp |-> Str(Digits(clock)), discovery_chance |-> discovery_chance,
         total_resonance |-> total_resonance,
         result_glyph |-> 10007, name |-> FailureDraws[1].name,
         properties |-> <<"unstable", "dangerous">>, effect |-> FailureDraws[1].effect,
         potency |-> 0, stability |-> 0, entropy_cost |-> 50, rarity |-> "failure"],
      registry |-> store_combination(known_combinations, pattern_key, new_combination)]

\* the result dict, and known_combinations after the call
_discover_new_combination(glyphs, roll, nd) ==
  LET total_resonance == _calculate_total_resonance(glyphs)
      discovery_chance == Min(MaxDiscoveryChance,
                              (total_resonance * 300) \div Scale + mastery_level \div 10)
      success == roll < discovery_chance
      new_combination == _generate_new_combination(glyphs, total_resonance, nd)
      pattern_key == _generate_pattern_key(glyphs)
  IN IF success
       THEN [result |->
               [type |-> "new_discovery", success |-> TRUE, input_glyphs |-> glyphs,
                timestamp |-> Str(Digits(clock)), discovery_chance |-> discovery_chance,
                total_resonance |-> total_resonance,
                result_glyph |-> new_combination.result_glyph,
                name |-> new_combination.name,
                properties |-> new_combination.properties,
                potency |-> new_combination.potency,
                stability |-> new_combination.stability,
                entropy_cost |-> new_combination.entropy_cost,
                rarity |-> new_combination.rarity,
                pattern_key |-> pattern_key, discovery |-> TRUE],
             registry |-> store_combination(known_combinations, pattern_key, new_combination)]
       ELSE [result |->
               [type |-> "new_discovery", success |-> FALSE, input_glyphs |-> glyphs,
                timestamp |-> Str(Digits(clock)), discovery_chance |-> discovery_chance,
                total_resonance |-> total_resonance,
                result_glyph |-> 10007, name |-> FailureDraws[1].name,
                properties |-> <<"unstable", "dangerous">>, effect |-> FailureDraws[1].effect,
                potency |-> 0, stability |-> 0, entropy_cost |-> 50, rarity |-> "failure"],
             registry |-> known_combinations]

\* result.get("discovery")
IsDiscovery(result) == "discovery" \in DOMAIN result /\ result.discovery

\* _record_combination's history
_record_combination(glyphs, result) ==
  LET history == Append(combination_history,
                        [glyphs |-> glyphs, result |-> result,
                         timestamp |-> Str(Digits(clock)),
                         mastery_at_time |-> mastery_level])
  IN IF Len(history) > HistoryLimit
       THEN SubSeq(history, Len(history) - HistoryKeep + 1, Len(history))
       ELSE history

\* an _update_mastery without the min(10.0, ...)
_update_mastery_unbounded(history) ==
  LET mastery_gain == IF history # <<>> /\ IsDiscovery(history[Len(history)].result)
                        THEN MasteryGain * 2 ELSE MasteryGain
  IN mastery_level + mastery_gain

\* _update_mastery, after the history entry is in
_update_mastery(history) ==
  LET mastery_gain == IF history # <<>> /\ IsDiscovery(history[Len(history)].result)
                        THEN MasteryGain * 2 ELSE MasteryGain
  IN Min(MasteryCeiling, mastery_level + mastery_gain)

\* lines 153-159
RecordAndReturn(glyphs, result) ==
  /\ combination_history' = _record_combination(glyphs, result)
  /\ transmutation_count' = transmutation_count + 1
  /\ mastery_level' = _update_mastery(combination_history')
  /\ last_call' = [n |-> last_call.n + 1, glyphs |-> glyphs, raised |-> FALSE]
  /\ clock' = clock + 1

otherCoordVars == <<state_lock, pc, frame, fieldVars, ledgerVars, logVars, exportVars, persistVars,
                    calls, ticks, credited>>

\* an arity check that comes after the call is counted
combine_raises_late ==
  /\ last_call.n < MaxResolves
  /\ \E glyphs \in AlchemyInputs :
       /\ Len(glyphs) < MinGlyphs \/ Len(glyphs) > MaxGlyphs
       /\ last_call' = [n |-> last_call.n + 1, glyphs |-> glyphs, raised |-> TRUE]
  /\ transmutation_count' = transmutation_count + 1
  /\ UNCHANGED <<known_combinations, combination_history,
                 mastery_level, probe, clock, otherCoordVars>>

\* len(glyphs) < 2 or > 5: ValueError
combine_raises ==
  /\ last_call.n < MaxResolves
  /\ \E glyphs \in AlchemyInputs :
       /\ Len(glyphs) < MinGlyphs \/ Len(glyphs) > MaxGlyphs
       /\ last_call' = [n |-> last_call.n + 1, glyphs |-> glyphs, raised |-> TRUE]
  /\ UNCHANGED <<known_combinations, combination_history, transmutation_count,
                 mastery_level, probe, clock, otherCoordVars>>

\* pattern_key in self.known_combinations
combine_known ==
  /\ last_call.n < MaxResolves
  /\ \E glyphs \in AlchemyInputs, roll \in Rolls, e \in 1..Len(EntropyDraws) :
       /\ Len(glyphs) >= MinGlyphs /\ Len(glyphs) <= MaxGlyphs
       /\ _generate_pattern_key(glyphs) \in DOMAIN known_combinations
       /\ known_combinations' = base_result_copy(_generate_pattern_key(glyphs), EntropyDraws[e])
       /\ RecordAndReturn(glyphs,
            _execute_known_combination(_generate_pattern_key(glyphs), glyphs,
                                       EntropyDraws[e], roll))
  /\ UNCHANGED <<probe, otherCoordVars>>

combine_discover ==
  /\ last_call.n < MaxResolves
  /\ \E glyphs \in AlchemyInputs, roll \in Rolls, d \in 1..Len(NewDraws) :
       /\ Len(glyphs) >= MinGlyphs /\ Len(glyphs) <= MaxGlyphs
       /\ _generate_pattern_key(glyphs) \notin DOMAIN known_combinations
       /\ LET out == _discover_new_combination(glyphs, roll, NewDraws[d])
          IN /\ known_combinations' = out.registry
             /\ RecordAndReturn(glyphs, out.result)
  /\ UNCHANGED <<probe, otherCoordVars>>

combine_glyphs == combine_raises \/ combine_known \/ combine_discover

NextAlchemy == combine_glyphs

\* the registry on its own, beside a freshly constructed coordinator
InitFresh == InitCoordinatorIn({FreshField}) /\ InitAlchemy

SpecAlchemy == InitFresh /\ [][NextAlchemy]_vars

\* ------------------------------------------------- the encoder on its own
KeyAlphabet == {base_glyphs[1], base_glyphs[2], base_glyphs[5], 9674}

KeyInputs == UNION {[1..n -> KeyAlphabet] : n \in MinGlyphs..MaxGlyphs}

Rearrangements(n) == {p \in [1..n -> 1..n] : \A i, j \in 1..n : i # j => p[i] # p[j]}

InitKey ==
  /\ InitCoordinatorIn({FreshField})
  /\ known_combinations = initialize_base_combinations
  /\ combination_history = <<>>
  /\ transmutation_count = 0
  /\ mastery_level = 0
  /\ last_call = NoCall
  /\ \E g \in KeyInputs : probe = [NoProbe EXCEPT !.glyphs = g, !.permuted = g]

\* the key of the input and of one rearrangement of it
Encode ==
  /\ ~probe.done
  /\ \E p \in Rearrangements(Len(probe.glyphs)) :
       LET permuted == [i \in 1..Len(probe.glyphs) |-> probe.glyphs[p[i]]]
       IN probe' = [glyphs |-> probe.glyphs, permuted |-> permuted,
                    key |-> _generate_pattern_key(probe.glyphs),
                    permuted_key |-> _generate_pattern_key(permuted),
                    done |-> TRUE]
  /\ UNCHANGED <<known_combinations, combination_history, transmutation_count,
                 mastery_level, last_call, coordVars>>

NextKey == Encode

SpecKey == InitKey /\ [][NextKey]_vars


\* ------------------------------------------------ _fracture_data on its own
\* passes of _fracture_data over one record
MaxPasses == 3

\* a fork record and a collapse record, by the fields of each type
FractureInputs ==
  { [node_id |-> Str(node_id \o <<45>> \o Digits(ForkDraws[1].suffix)),
     glyph_state |-> List(ForkDraws[1].glyph_state),
     entropy_level |-> Num(FreshField.global_flux),
     alchemy_potential |-> Other],
    [node_id |-> Str(node_id),
     action |-> Str(collapse_word),
     sigil |-> Str(<<CollapseDraws[1].sigil>>),
     time_salt_generated |-> Num(CollapseDraws[1].time_salt_generated)] }

\* the fields whose random.random() falls below 0.3 in one pass
CorruptSets == SUBSET {"node_id", "glyph_state", "entropy_level", "alchemy_potential", "sigil"}

InitFracture ==
  /\ InitCoordinatorIn({FreshField})
  /\ known_combinations = initialize_base_combinations
  /\ combination_history = <<>>
  /\ transmutation_count = 0
  /\ mastery_level = 0
  /\ last_call = NoCall
  /\ \E d \in FractureInputs :
       probe = [data |-> d, first |-> d, corrupted |-> {}, result |-> d, passes |-> 0,
                input |-> d, selected |-> {}]

\* one more pass over the record the last pass returned; `input` is that
\* record as the call leaves it, `selected` the fields the pass drew
Fracture ==
  /\ probe.passes < MaxPasses
  /\ \E corrupt \in CorruptSets :
       LET fractured == _fracture_data(probe.result, corrupt)
       IN probe' = [data |-> probe.data,
                    first |-> IF probe.passes = 0 THEN fractured ELSE probe.first,
                    corrupted |-> IF probe.passes = 0 THEN corrupt \cap DOMAIN probe.data
                                  ELSE probe.corrupted,
                    result |-> fractured,
                    passes |-> probe.passes + 1,
                    input |-> _fracture_data_input(probe.result, corrupt),
                    selected |-> corrupt]
  /\ UNCHANGED <<known_combinations, combination_history, transmutation_count,
                 mastery_level, last_call, coordVars>>

NextFracture == Fracture

SpecFracture == InitFracture /\ [][NextFracture]_vars

\* ------------------------------------------------------------ FragmentMarket
\* calls of buy_item and sell_item on one market
MaxTrades == 3

\* two of the basic items (lines 63-72): item id -> base price
basic_items == [memory_fragment_001 |-> 15, time_crystal_001 |-> 50]

\* MarketItem.__init__: demand and supply, two sample points of their ranges
ItemDraws == {[demand |-> 800, supply |-> 200], [demand |-> 500, supply |-> 500]}

\* the currency strings a caller passes: the two the market names, and another
Currencies == {"fragments", "time_salt", "salt"}

\* random.uniform(0.6, 0.8) in sell_item
SellMultipliers == {600, 800}

NoResult == [success |-> FALSE, error |-> "none"]

\* int(item.current_price * 0.8)
salt_price(current_price) == (current_price * 8) \div 10

\* FragmentMarket.__init__: 50 fragments, 100 time salt, an empty inventory
InitMarket ==
  /\ InitCoordinatorIn({FreshField})
  /\ known_combinations = initialize_base_combinations
  /\ combination_history = <<>>
  /\ transmutation_count = 0
  /\ mastery_level = 0
  /\ last_call = NoCall
  /\ \E draw \in ItemDraws :
       probe = [player_fragments |-> 50,
                player_time_salt |-> 100,
                player_inventory |-> <<>>,
                items |-> [i \in DOMAIN basic_items |->
                             [base_price |-> basic_items[i],
                              current_price |-> basic_items[i],
                              demand |-> draw.demand,
                              supply |-> draw.supply]],
                transaction_history |-> <<>>,
                call |-> [op |-> "none", item_id |-> "none", currency |-> "none"],
                result |-> NoResult,
                trades |-> 0]

\* the balance checks of lines 93-105: they name two currency strings
insufficient(market, item, currency) ==
  \/ currency = "fragments" /\ market.player_fragments < item.current_price
  \/ currency = "time_salt" /\ market.player_time_salt < salt_price(item.current_price)

\* lines 107-138: debit, inventory entry, market dynamics, transaction
process_purchase(market, item_id, currency) ==
  LET item == market.items[item_id]
      paid_amount == IF currency = "fragments" THEN item.current_price
                     ELSE salt_price(item.current_price)
      demand == Max(100, item.demand - 100)
      supply == Max(100, item.supply - 100)
  IN [market EXCEPT
        !.player_fragments = IF currency = "fragments" THEN @ - paid_amount ELSE @,
        !.player_time_salt = IF currency = "fragments" THEN @ ELSE @ - paid_amount,
        !.player_inventory = Append(@, [item_id |-> item_id,
                                        purchase_price |-> paid_amount,
                                        currency_used |-> currency]),
        !.items[item_id] = [base_price |-> item.base_price,
                            current_price |->
                              (item.base_price * (1500 - supply + demand)) \div 1000,
                            demand |-> demand,
                            supply |-> supply],
        !.transaction_history = Append(@, [type |-> "purchase", item_id |-> item_id,
                                           price |-> paid_amount, currency |-> currency]),
        !.result = [success |-> TRUE, error |-> "none"]]

buy_item ==
  /\ probe.trades < MaxTrades
  /\ \E item_id \in DOMAIN basic_items \cup {"unlisted"}, currency \in Currencies :
       LET market == [probe EXCEPT
                        !.call = [op |-> "buy", item_id |-> item_id, currency |-> currency],
                        !.trades = @ + 1]
       IN probe' =
            IF item_id \notin DOMAIN market.items
              THEN [market EXCEPT !.result = [success |-> FALSE, error |-> "not found"]]
            ELSE IF insufficient(market, market.items[item_id], currency)
              THEN [market EXCEPT !.result = [success |-> FALSE, error |-> "insufficient"]]
            ELSE process_purchase(market, item_id, currency)
  /\ UNCHANGED <<known_combinations, combination_history, transmutation_count,
                 mastery_level, last_call, coordVars>>

\* drop element i of a list: list.pop(i)
Pop(l, i) == [j \in 1..(Len(l) - 1) |-> IF j < i THEN l[j] ELSE l[j + 1]]

sell_item ==
  /\ probe.trades < MaxTrades
  /\ \E inventory_index \in 0..Len(probe.player_inventory), mult \in SellMultipliers :
       LET market == [probe EXCEPT
                        !.call = [op |-> "sell", item_id |-> "none", currency |-> "none"],
                        !.trades = @ + 1]
       IN probe' =
            IF inventory_index >= Len(market.player_inventory)
              THEN [market EXCEPT !.result = [success |-> FALSE, error |-> "invalid index"]]
            ELSE LET item_data == market.player_inventory[inventory_index + 1]
                     sell_price == (item_data.purchase_price * mult) \div 1000
                 IN [market EXCEPT
                       !.player_fragments =
                         IF item_data.currency_used = "fragments" THEN @ + sell_price ELSE @,
                       !.player_time_salt =
                         IF item_data.currency_used = "fragments" THEN @ ELSE @ + sell_price,
                       !.player_inventory = Pop(@, inventory_index + 1),
                       !.transaction_history =
                         Append(@, [type |-> "sale", item_id |-> item_data.item_id,
                                    price |-> sell_price,
                                    currency |-> item_data.currency_used]),
                       !.result = [success |-> TRUE, error |-> "none"]]
  /\ UNCHANGED <<known_combinations, combination_history, transmutation_count,
                 mastery_level, last_call, coordVars>>

NextMarket == buy_item \/ sell_item

SpecMarket == InitMarket /\ [][NextMarket]_vars

\* -------------------------------------- save_game_state, load_game_state
\* d.get(key, default)
Get(d, key, default) == IF key \in DOMAIN d THEN d[key] ELSE default

\* {} and []
EmptyDict == <<>>

\* json.dump writes values: the two maps of entropy_field are written out
\* as they are when the file is written
json_dump(d) == [d EXCEPT !.entropy_field = Deref(@)]

\* the drift_engine section of a well-formed file with an empty ledger
EmptyLedgerSnapshot ==
  [time_salt |-> 0, identity_fragments |-> 0, fork_log |-> <<>>, anomaly_echoes |-> <<>>,
   sentient_logs |-> <<>>,
   entropy_field |-> [global_flux |-> 400,
                      enclave_resonance |-> [e \in EnclaveIds |-> 300],
                      glyph_harmonics |-> [g \in Glyphs |-> 600],
                      temporal_distortion |-> 0, market_volatility |-> 200],
   alchemy_state |-> [known_combinations |-> initialize_base_combinations,
                      combination_history |-> <<>>, transmutation_count |-> 0,
                      mastery_level |-> 0],
   enclave_state |-> EmptyDict]

\* a file whose enclave_state section is not a dict (null)
MalformedSectionSnapshot ==
  [time_salt |-> 7, identity_fragments |-> 3, fork_log |-> <<>>,
   entropy_field |-> [global_flux |-> 600,
                      enclave_resonance |-> [e \in EnclaveIds |-> 100],
                      glyph_harmonics |-> [g \in Glyphs |-> 900],
                      temporal_distortion |-> 0, market_volatility |-> 500],
   alchemy_state |-> [known_combinations |-> initialize_base_combinations,
                      combination_history |-> <<>>, transmutation_count |-> 5,
                      mastery_level |-> 50],
   enclave_state |-> Other]

\* what drift_save.json may hold when the program starts
SaveFiles ==
  { NoFile,
    [kind |-> "corrupt", data |-> <<>>],
    [kind |-> "json", data |-> <<[drift_engine |-> EmptyLedgerSnapshot]>>],
    [kind |-> "json", data |-> <<[drift_engine |-> MalformedSectionSnapshot]>>] }

\* the user's actions in a session, at most limit of them: Ctrl-S, Ctrl-L,
\* the collapse button
UserCall(t, limit) ==
  /\ t = "ui"
  /\ pc[t] = "idle"
  /\ calls < limit
  /\ calls' = calls + 1
  /\ \/ /\ Goto(t, "export_acquire")
        /\ frame' = [frame EXCEPT ![t].ret = "save_dump"]
        /\ UNCHANGED loads
     \/ /\ loads < MaxLoads
        /\ loads' = loads + 1
        /\ Goto(t, "load_read")
        /\ UNCHANGED frame
     \/ /\ Goto(t, "collapse_acquire")
        /\ UNCHANGED <<frame, loads>>
  /\ UNCHANGED <<state_lock, fieldVars, ledgerVars, logVars, exportVars, clock, ticks,
                 credited, save_file, saved_state>>
  /\ UNCHANGED alchemyVars

SessionCall(t) == UserCall(t, MaxCalls)

PersistCall(t) == UserCall(t, MaxSessionCalls)

\* GameState.save_state: json.dump of {'drift_engine': export_state(), ...}
save_state(t) ==
  /\ pc[t] = "save_dump"
  /\ save_file' = [kind |-> "json", data |-> <<[drift_engine |-> json_dump(exported[t][1])]>>]
  /\ saved_state' = witnessed[t]
  /\ Goto(t, "idle")
  /\ UNCHANGED <<state_lock, frame, fieldVars, ledgerVars, logVars, exportVars, clock,
                 calls, ticks, credited, loads>>
  /\ UNCHANGED alchemyVars

\* GameState.load_state and the branch of load_game_state on its result:
\* None for an absent or unparseable file, and then initialize_default_state
load_game_state(t) ==
  /\ pc[t] = "load_read"
  /\ IF save_file.kind = "json" /\ save_file.data[1] # EmptyDict
       THEN /\ frame' = [frame EXCEPT
                 ![t].rec = <<Get(save_file.data[1], "drift_engine", EmptyDict)>>]
            /\ Goto(t, "import_acquire")
       ELSE /\ Goto(t, "initdef_acquire")
            /\ UNCHANGED frame
  /\ UNCHANGED <<state_lock, fieldVars, ledgerVars, logVars, exportVars, persistVars,
                 clock, calls, ticks, credited>>
  /\ UNCHANGED alchemyVars

\* the dict objects json.load built for this load
LoadedEnclaveRef == "enclave_resonance#" \o ToString(loads)

LoadedHarmonicsRef == "glyph_harmonics#" \o ToString(loads)

\* self.entropy_field = state_data.get("entropy_field", {}), and
\* initialize_entropy_field when that is empty
import_entropy_field(state_data) ==
  LET ef == Get(state_data, "entropy_field", EmptyDict)
      flux == IF ef = EmptyDict THEN FreshField.global_flux ELSE ef.global_flux
      resonance == IF ef = EmptyDict THEN [e \in EnclaveIds |-> FreshField.resonance]
                   ELSE ef.enclave_resonance
      harmonics == IF ef = EmptyDict THEN [g \in Glyphs |-> FreshField.harmonic]
                   ELSE ef.glyph_harmonics
      temporal == IF ef = EmptyDict THEN FreshField.temporal ELSE ef.temporal_distortion
      volatility == IF ef = EmptyDict THEN FreshField.volatility ELSE ef.market_volatility
  IN /\ entropy_field' = [global_flux |-> flux,
                          enclave_resonance |-> LoadedEnclaveRef,
                          glyph_harmonics |-> LoadedHarmonicsRef,
                          temporal_distortion |-> temporal,
                          market_volatility |-> volatility]
     /\ dict_objects' = (LoadedEnclaveRef :> resonance) @@ (LoadedHarmonicsRef :> harmonics)
                        @@ dict_objects

\* an import that merges the snapshot's registry into the live one
alchemy_import_state_merge(state_data) ==
  /\ known_combinations' = known_combinations @@ Get(state_data, "known_combinations", EmptyDict)
  /\ combination_history' = Get(state_data, "combination_history", <<>>)
  /\ transmutation_count' = Get(state_data, "transmutation_count", 0)
  /\ mastery_level' = Get(state_data, "mastery_level", 0)

\* AlchemySystem.import_state
alchemy_import_state(state_data) ==
  /\ known_combinations' = Get(state_data, "known_combinations", EmptyDict)
  /\ combination_history' = Get(state_data, "combination_history", <<>>)
  /\ transmutation_count' = Get(state_data, "transmutation_count", 0)
  /\ mastery_level' = Get(state_data, "mastery_level", 0)

\* DriftEngine.import_state, lines 390-424 inside the lock: the assignments in
\* the code's order, up to the first subsystem section that is not a dict,
\* whose .get raises AttributeError
import_state(t) ==
  /\ pc[t] = "import_build"
  /\ LET state_data == frame[t].rec[1]
         alchemy_raises == "alchemy_state" \in DOMAIN state_data
                           /\ state_data.alchemy_state = Other
         enclave_raises == "enclave_state" \in DOMAIN state_data
                           /\ state_data.enclave_state = Other
     IN /\ time_salt' = Get(state_data, "time_salt", InitialTimeSalt)
        /\ identity_fragments' = Get(state_data, "identity_fragments", InitialFragments)
        /\ fork_log' = Get(state_data, "fork_log", <<>>)
        /\ anomaly_echoes' = Get(state_data, "anomaly_echoes", <<>>)
        /\ sentient_logs' = Get(state_data, "sentient_logs", <<>>)
        /\ IF "alchemy_state" \in DOMAIN state_data /\ ~alchemy_raises
             THEN alchemy_import_state(state_data.alchemy_state)
             ELSE UNCHANGED <<known_combinations, combination_history,
                              transmutation_count, mastery_level>>
        /\ IF alchemy_raises \/ enclave_raises
             THEN \* line 401 has run, line 423 has not
                  /\ LET ef == Get(state_data, "entropy_field", EmptyDict)
                     IN IF ef = EmptyDict
                          THEN /\ entropy_field' = EmptyDict
                               /\ UNCHANGED dict_objects
                          ELSE import_entropy_field(state_data)
                  /\ frame' = [frame EXCEPT ![t].ret = "initdef_acquire"]
                  /\ Goto(t, "import_raise")
             ELSE /\ import_entropy_field(state_data)
                  /\ UNCHANGED frame
                  /\ Goto(t, "import_return")
  /\ UNCHANGED <<state_lock, current_drift_map, exportVars, persistVars, clock, calls,
                 ticks, credited, last_call, probe>>

\* the glyph selections of a session: too few, a pair of the base registry, and
\* a pair outside it whose resonance allows a discovery
SessionGlyphs ==
  {<<base_glyphs[1]>>, <<base_glyphs[1], base_glyphs[2]>>, <<base_glyphs[1], base_glyphs[5]>>}

\* perform_alchemy, on the thread that saves and loads
ResolveInSession ==
  /\ pc["ui"] = "idle"
  /\ last_call.n < MaxSessionResolves
  /\ combine_glyphs
  /\ last_call'.glyphs \in SessionGlyphs

\* ------------------------------------------- resolves late in a long session
\* how many resolves came before: none, or enough to stand at the ceiling or
\* one or two gains below it
PriorResolves == {0, 998, 999, 1000}

\* the history entry of the i-th of those resolves: the first seeded pair,
\* failing (the roll at the top of its range)
PriorEntry(i) ==
  LET glyphs == fundamental_patterns[1].glyphs
  IN [glyphs |-> glyphs,
      result |-> [type |-> "known_combination", success |-> FALSE,
                  pattern_key |-> _generate_pattern_key(glyphs),
                  input_glyphs |-> glyphs, timestamp |-> Str(Digits(0)),
                  mastery_bonus |-> i - 1,
                  entropy_modifier |-> _calculate_entropy_influence(EntropyDraws[2]),
                  result_glyph |-> 10007, name |-> FailureDraws[1].name,
                  properties |-> <<"unstable", "dangerous">>,
                  effect |-> FailureDraws[1].effect,
                  potency |-> 0, stability |-> 0, entropy_cost |-> 50, rarity |-> "failure"],
      timestamp |-> Str(Digits(0)),
      mastery_at_time |-> (i - 1) * MasteryGain]

\* the registry after n failed resolves of a seeded pair
InitMastery ==
  /\ InitCoordinatorIn({FreshField})
  /\ \E n \in PriorResolves :
       /\ combination_history = [i \in 1..n |-> PriorEntry(i)]
       /\ transmutation_count = n
       /\ mastery_level = Min(MasteryCeiling, n * MasteryGain)
  /\ known_combinations = initialize_base_combinations
  /\ last_call = NoCall
  /\ probe = NoProbe

\* combine_glyphs on a pair of the base registry, a pair outside it and a
\* selection too short
ResolveInMastery ==
  /\ combine_glyphs
  /\ last_call'.glyphs \in SessionGlyphs

NextMastery == ResolveInMastery

SpecMastery == InitMastery /\ [][NextMastery]_vars

InitPersist == InitSessionIn({FreshField}, SaveFiles) /\ InitAlchemy

\* a session of saves, loads and collapses, with the timer running
NextSession ==
  \E t \in Threads :
    \/ SessionCall(t)
    \/ TimerFires(t)
    \/ Acquire(t)
    \/ update_entropy_field(t)
    \/ collapse_node(t)
    \/ export_state(t)
    \/ save_state(t)
    \/ load_game_state(t)
    \/ import_state(t)
    \/ initialize_default_state(t)
    \/ Release(t)

SpecSession == InitPersist /\ [][NextSession]_vars

\* a longer session with transmutations between the calls
NextPersist ==
  \/ ResolveInSession
  \/ \E t \in Threads :
       \/ PersistCall(t)
       \/ TimerFires(t)
       \/ Acquire(t)
       \/ update_entropy_field(t)
       \/ collapse_node(t)
       \/ export_state(t)
       \/ save_state(t)
       \/ load_game_state(t)
       \/ import_state(t)
       \/ initialize_default_state(t)
       \/ Release(t)

SpecPersist == InitPersist /\ [][NextPersist]_vars

\* --------------------------------- combine_glyphs beside the timer thread
\* lines 136-151 on the UI thread, no lock taken: the arity checks, the key,
\* and the execution or the discovery with its registry insert
combine_lookup ==
  /\ pc["ui"] = "idle"
  /\ last_call.n < MaxSessionResolves
  /\ \E glyphs \in SessionGlyphs, roll \in Rolls, e \in 1..Len(EntropyDraws),
        d \in 1..Len(NewDraws) :
       LET pattern_key == _generate_pattern_key(glyphs)
           out == IF pattern_key \in DOMAIN known_combinations
                    THEN [registry |-> known_combinations,
                          result |-> _execute_known_combination(pattern_key, glyphs,
                                                                EntropyDraws[e], roll)]
                    ELSE _discover_new_combination(glyphs, roll, NewDraws[d])
       IN /\ Len(glyphs) >= MinGlyphs /\ Len(glyphs) <= MaxGlyphs
          /\ known_combinations' = out.registry
          /\ frame' = [frame EXCEPT !["ui"].rec = <<[glyphs |-> glyphs, result |-> out.result]>>]
  /\ Goto("ui", "combine_record")
  /\ UNCHANGED <<combination_history, transmutation_count, mastery_level, last_call, probe,
                 state_lock, fieldVars, ledgerVars, logVars, exportVars, persistVars, clock,
                 calls, ticks, credited>>

\* lines 153-159: _record_combination, _update_mastery, return
combine_record ==
  /\ pc["ui"] = "combine_record"
  /\ RecordAndReturn(frame["ui"].rec[1].glyphs, frame["ui"].rec[1].result)
  /\ frame' = [frame EXCEPT !["ui"] = NoFrame]
  /\ Goto("ui", "idle")
  /\ UNCHANGED <<known_combinations, probe, state_lock, fieldVars, ledgerVars, logVars,
                 exportVars, persistVars, calls, ticks, credited>>

NextResolve ==
  \/ combine_lookup
  \/ combine_record
  \/ \E t \in Threads :
       \/ TimerFires(t)
       \/ Acquire(t)
       \/ update_entropy_field(t)
       \/ Release(t)

SpecResolve == InitPersist /\ [][NextResolve]_vars

Next ==
  \E t \in Threads :
    \/ TimerFires(t)
    \/ Call(t)
    \/ Acquire(t)
    \/ update_entropy_field(t)
    \/ fork_node(t)
    \/ collapse_node(t)
    \/ memory_wipe(t)
    \/ generate_drift_map(t)
    \/ initialize_default_state(t)
    \/ export_state(t)
    \/ get_system_status(t)
    \/ Release(t)

Spec == Init /\ [][Next]_vars

\* with fairness: a thread that can take its next step does take it; calls
\* and timer firings are the environment's and need not happen
Progress(t) ==
  \/ Acquire(t)
  \/ update_entropy_field(t)
  \/ fork_node(t)
  \/ collapse_node(t)
  \/ memory_wipe(t)
  \/ generate_drift_map(t)
  \/ initialize_default_state(t)
  \/ export_state(t)
  \/ get_system_status(t)
  \/ Release(t)

FairSpec == Spec /\ \A t \in Threads : WF_vars(Progress(t))

\* a program step of a thread that saves and loads
SessionProgress(t) == Progress(t) \/ save_state(t) \/ load_game_state(t) \/ import_state(t)

FairSpecSession == SpecSession /\ \A t \in Threads : WF_vars(SessionProgress(t))

\* --------------------------------------------------------- SimpleDriftEngine
\* the terminal interface's engine (simple_main.py): one thread, no lock; its
\* state is held in `probe`
MaxSimpleOps == 3

\* fork_node's draws: the id suffix, the entropy change, the two rewards
SimpleForkDraws ==
  << [suffix |-> 1000, entropy_change |-> 50, salt_reward |-> 2, fragment_reward |-> 1],
     [suffix |-> 9999, entropy_change |-> 150, salt_reward |-> 8, fragment_reward |-> 5] >>

\* collapse_node's draws: the entropy reduction, the two rewards
SimpleCollapseDraws ==
  << [entropy_reduction |-> 100, salt_reward |-> 3, fragment_reward |-> 2],
     [entropy_reduction |-> 200, salt_reward |-> 10, fragment_reward |-> 6] >>

\* what NarrativeEngine.process_action returns for the n-th action
narrative_result(n) ==
  [timeline_id |-> "timeline", narrative_fragment |-> Str(Digits(n))]

\* SimpleDriftEngine.__init__
InitSimple ==
  /\ InitCoordinatorIn({FreshField})
  /\ known_combinations = initialize_base_combinations
  /\ combination_history = <<>>
  /\ transmutation_count = 0
  /\ mastery_level = 0
  /\ last_call = NoCall
  /\ probe = [pos |-> "idle", last |-> "none",
              entropy_level |-> 500, time_salt |-> 100, identity_fragments |-> 50,
              fork_count |-> 0, total_operations |-> 0, operation_log |-> <<>>]

SimpleUnchanged ==
  UNCHANGED <<known_combinations, combination_history, transmutation_count,
              mastery_level, last_call, coordVars>>

\* fork_node, lines 54-78: the effects, the rewards, and the record appended
simple_fork_append ==
  /\ probe.pos = "idle"
  /\ probe.total_operations < MaxSimpleOps
  /\ \E d \in 1..Len(SimpleForkDraws) :
       LET draw == SimpleForkDraws[d]
           entropy_level == Min(Scale, probe.entropy_level + draw.entropy_change)
           operation == [type |-> "fork",
                         node_id |-> Str(node_id \o <<45>> \o Digits(draw.suffix)),
                         entropy_change |-> draw.entropy_change,
                         entropy_level |-> entropy_level,
                         rewards |-> [time_salt |-> draw.salt_reward,
                                      fragments |-> draw.fragment_reward],
                         timestamp |-> Str(Digits(probe.total_operations))]
       IN probe' = [probe EXCEPT
                      !.pos = "fork_narrative", !.last = "fork",
                      !.entropy_level = entropy_level,
                      !.time_salt = @ + draw.salt_reward,
                      !.identity_fragments = @ + draw.fragment_reward,
                      !.fork_count = @ + 1,
                      !.total_operations = @ + 1,
                      !.operation_log = Append(@, operation)]
  /\ SimpleUnchanged

\* collapse_node, lines 88-109
simple_collapse_append ==
  /\ probe.pos = "idle"
  /\ probe.total_operations < MaxSimpleOps
  /\ \E d \in 1..Len(SimpleCollapseDraws) :
       LET draw == SimpleCollapseDraws[d]
           entropy_level == Max(0, probe.entropy_level - draw.entropy_reduction)
           operation == [type |-> "collapse",
                         node_id |-> Str(node_id),
                         entropy_reduction |-> draw.entropy_reduction,
                         entropy_level |-> entropy_level,
                         rewards |-> [time_salt |-> draw.salt_reward,
                                      fragments |-> draw.fragment_reward],
                         timestamp |-> Str(Digits(probe.total_operations))]
       IN probe' = [probe EXCEPT
                      !.pos = "collapse_narrative", !.last = "collapse",
                      !.entropy_level = entropy_level,
                      !.time_salt = @ + draw.salt_reward,
                      !.identity_fragments = @ + draw.fragment_reward,
                      !.total_operations = @ + 1,
                      !.operation_log = Append(@, operation)]
  /\ SimpleUnchanged

\* lines 81-84 and 112-115: operation["narrative"] = narrative_result, where
\* `operation` is the dict object that was appended, the log's last element
simple_narrative ==
  /\ probe.pos \in {"fork_narrative", "collapse_narrative"}
  /\ LET n == Len(probe.operation_log)
         operation == probe.operation_log[n]
         narrative == narrative_result(probe.total_operations)
     IN probe' = [probe EXCEPT
                    !.pos = "idle",
                    !.operation_log[n] =
                      [k \in DOMAIN operation \cup {"narrative"} |->
                         IF k = "narrative" THEN narrative ELSE operation[k]]]
  /\ SimpleUnchanged

\* memory_wipe, lines 117-149: its record is returned, not appended
simple_memory_wipe ==
  /\ probe.pos = "idle"
  /\ probe.total_operations < MaxSimpleOps
  /\ LET wiped_operations == Len(probe.operation_log)
     IN probe' = [probe EXCEPT
                    !.last = "memory_wipe",
                    !.operation_log = <<>>,
                    !.entropy_level = 500,
                    !.time_salt = @ + wiped_operations * 3,
                    !.identity_fragments = @ + wiped_operations * 2,
                    !.total_operations = @ + 1]
  /\ SimpleUnchanged

NextSimple ==
  \/ simple_fork_append
  \/ simple_collapse_append
  \/ simple_narrative
  \/ simple_memory_wipe

SpecSimple == InitSimple /\ [][NextSimple]_vars

\* ------------------------------------------------------------------ claims
\* a thread inside an exclusive section, its own or that of its caller
InSection(t) == pc[t] \notin ({"idle"} \cup AcquireLabels) \/ frame[t].ret # "idle"

Quiescent == \A t \in Threads : ~InSection(t)

FieldInRange(f) ==
  /\ f.global_flux \in 0..Scale
  /\ \A e \in DOMAIN f.enclave_resonance : f.enclave_resonance[e] \in 0..Scale
  /\ \A g \in DOMAIN f.glyph_harmonics : f.glyph_harmonics[g] \in 0..Scale
  /\ f.temporal_distortion \in (-Scale)..Scale
  /\ f.market_volatility \in 0..Scale

\* C1: after every tick, fork, collapse, memory_wipe and scan call (the
\* section released again) every EntropyField scalar is within its range:
\* global_flux, each resonance, each harmonic and volatility in [0,1],
\* temporal_distortion in [-1,1].
C1_FieldInRangeAfterEachCall ==
  state_lock = "free" => FieldInRange(Deref(entropy_field))

\* C2: memory_wipe, admitted with N forks in the log, ends with the log
\* empty, time-salt raised by exactly 2*N, identity-fragments unchanged and
\* global_flux 0.5, whatever the flux was.
C2_MemoryWipeEffect ==
  \A t \in Threads :
    pc[t] = "wipe_return" =>
      /\ fork_log = <<>>
      /\ time_salt = frame[t].entry.time_salt + 2 * frame[t].entry.log_len
      /\ identity_fragments = frame[t].entry.identity_fragments
      /\ entropy_field.global_flux = FluxMidpoint

C2_Witness ==
  \E t \in Threads :
    /\ pc[t] = "wipe_return"
    /\ frame[t].entry.log_len >= 1
    /\ frame[t].entry.global_flux # FluxMidpoint

\* C3: every operation admitted to the exclusive section eventually
\* completes and releases it.
C3_AdmittedOperationCompletes ==
  \A t \in Threads : (state_lock = t) ~> (state_lock # t)

\* C4: at most one thread at a time is between the first read and the last
\* write of an operation on the field, the ledger or the log.
C4_MutualExclusion ==
  \A t1, t2 \in Threads : (InSection(t1) /\ InSection(t2)) => t1 = t2

C4_Witness ==
  \E t1, t2 \in Threads :
    /\ pc[t1] = "fork_flux"
    /\ pc[t2] \in {"tick_acquire", "collapse_acquire", "wipe_acquire", "scan_acquire"}

\* an operation under way whose store to time_salt / identity_fragments is done
SaltStored(t) ==
  pc[t] \in {"collapse_frag_load", "collapse_frag_store", "collapse_flux", "collapse_echo",
             "collapse_return", "wipe_flux", "wipe_return"}

FragmentsStored(t) == pc[t] \in {"collapse_flux", "collapse_echo", "collapse_return"}

\* C5: time-salt and identity-fragments equal their initial values plus the
\* deltas of the completed operations and of the stores done by operations
\* under way; with no operation under way, plus the completed deltas alone.
C5_NoLostUpdate ==
  /\ time_salt = InitialTimeSalt + credited.time_salt
                   + SumOver({t \in Threads : SaltStored(t)},
                             [t \in Threads |-> frame[t].delta.time_salt])
  /\ identity_fragments = InitialFragments + credited.identity_fragments
                   + SumOver({t \in Threads : FragmentsStored(t)},
                             [t \in Threads |-> frame[t].delta.identity_fragments])

C5_Witness ==
  /\ Quiescent
  /\ ticks = 1
  /\ Len(anomaly_echoes) = 2
  /\ credited.time_salt >= 2
  /\ credited.identity_fragments >= 3

\* C6: every record fork appends to the operation log carries an
\* entropy_level within [0,1].
C6_ForkRecordInRange ==
  \A i \in 1..Len(fork_log) : NumVal(fork_log[i].entropy_level) \in 0..Scale

\* C7: what export_state or get_system_status returned keeps, value for
\* value, what the coordinator held at the instant of the export.
C7_SnapshotIsPointInTime ==
  \A t \in Threads : exported[t] # <<>> => View(exported[t][1]) = witnessed[t][1]

\* C8: the encoder gives every rearrangement of a token list of 2 to 5
\* tokens the key of the list itself.
C8_KeyPermutationInvariant ==
  probe.done => probe.permuted_key = probe.key

C8_Witness ==
  /\ probe.done
  /\ Len(probe.glyphs) = MaxGlyphs
  /\ probe.permuted # probe.glyphs
  /\ probe.permuted[1] # probe.permuted[2]

\* the call just made recorded a Failure outcome
ResolvedWithFailure ==
  /\ transmutation_count' = transmutation_count + 1
  /\ ~combination_history'[Len(combination_history')].result.success

\* C9: a combine_glyphs call that returns a Failure outcome, from either
\* branch, leaves the registry with the keys and records it had.
C9_FailureLeavesRegistry ==
  [][ResolvedWithFailure => known_combinations' = known_combinations]_vars

C9_Witness ==
  /\ \E i \in 1..Len(combination_history) :
       /\ combination_history[i].result.type = "known_combination"
       /\ ~combination_history[i].result.success
  /\ \E i \in 1..Len(combination_history) :
       /\ combination_history[i].result.type = "new_discovery"
       /\ ~combination_history[i].result.success

SameMultiset(a, b) == sorted(a) = sorted(b)

Discoveries == {i \in 1..Len(combination_history) :
                  IsDiscovery(combination_history[i].result)}

\* C10: after a successful Discovery for some tokens, every later call with
\* the same token multiset, in any order, takes the known-combination branch;
\* the registry holds one record more per discovery, one per multiset.
C10_DiscoveryThenKnown ==
  /\ \A i \in Discoveries : \A j \in (i + 1)..Len(combination_history) :
       SameMultiset(combination_history[i].glyphs, combination_history[j].glyphs)
         => combination_history[j].result.type = "known_combination"
  /\ Cardinality(DOMAIN known_combinations)
       = Cardinality(DOMAIN initialize_base_combinations) + Cardinality(Discoveries)

C10_Witness ==
  \E i \in Discoveries : \E j \in (i + 1)..Len(combination_history) :
    /\ SameMultiset(combination_history[i].glyphs, combination_history[j].glyphs)
    /\ combination_history[i].glyphs # combination_history[j].glyphs
    /\ combination_history[j].result.type = "known_combination"

\* a combine_glyphs call was just made
Resolved == last_call'.n = last_call.n + 1

\* C11: a combine_glyphs call with fewer than 2 or more than 5 tokens raises,
\* and leaves the registry, the history, the transmutation count and the
\* mastery level as they were; a call with 2 to 5 tokens does not raise.
C11_ArityErrorChangesNothing ==
  [][Resolved =>
       IF Len(last_call'.glyphs) < 2 \/ Len(last_call'.glyphs) > 5
         THEN /\ last_call'.raised
              /\ UNCHANGED <<known_combinations, combination_history,
                             transmutation_count, mastery_level>>
         ELSE ~last_call'.raised]_vars

C11_Witness ==
  /\ last_call.raised
  /\ Len(last_call.glyphs) > MaxGlyphs
  /\ \E i \in 1..Len(combination_history) : IsDiscovery(combination_history[i].result)

\* C12: a key that is known stays known, with a record, in every later
\* state, whatever registry or coordinator operation is made.
C12_KnownNeverReverts ==
  [][\A k \in DOMAIN known_combinations : k \in DOMAIN known_combinations']_vars

\* the positions of a field's original value that the first pass removed
Removed(k) ==
  {i \in 1..Len(probe.data[k].v) :
     i > Len(probe.first[k].v) \/ probe.first[k].v[i] # probe.data[k].v[i]}

\* C13: a further pass over a fractured record never raises, and each field
\* the first pass corrupted keeps the type that pass gave it and shows at no
\* position the original element that the first pass removed there.
C13_RefractureRevealsNothing ==
  probe.passes >= 2 =>
    \A k \in DOMAIN probe.data :
      /\ probe.result[k] # Raised
      /\ k \in probe.corrupted =>
            /\ probe.result[k].t = probe.first[k].t
            /\ \A i \in Removed(k) :
                 i <= Len(probe.result[k].v) => probe.result[k].v[i] # probe.data[k].v[i]

C13_Witness ==
  /\ probe.passes >= 2
  /\ probe.corrupted = {"node_id", "glyph_state", "entropy_level", "alchemy_potential"}
  /\ probe.first.entropy_level = Str(Placeholder)
  /\ probe.result.entropy_level = Str(Blocks(3))
  /\ probe.result.alchemy_potential = Str(Blocks(4))

\* C14: both ledger counters are non-negative in every reachable state; no step
\* of a collapse decreases either counter, and a collapse that has entered its
\* section returns, also when it started with both counters at 0
CollapseLabels ==
  {"collapse_build", "collapse_salt_load", "collapse_salt_store", "collapse_frag_load",
   "collapse_frag_store", "collapse_flux", "collapse_echo"}

C14_LedgerNeverNegative ==
  /\ [](time_salt >= 0 /\ identity_fragments >= 0)
  /\ [][\A t \in Threads :
          pc[t] \in CollapseLabels =>
            time_salt' >= time_salt /\ identity_fragments' >= identity_fragments]_vars
  /\ \A t \in Threads : (pc[t] = "collapse_build") ~> (pc[t] = "collapse_return")

\* a collapse that started from the imported ledger 0/0 and released no fragment
C14_Witness ==
  /\ pc["ui"] = "collapse_return"
  /\ loads = 1
  /\ frame["ui"].rec[1].time_salt_generated = Num(time_salt)
  /\ frame["ui"].rec[1].fragments_released = Num(0)
  /\ identity_fragments = 0

\* C15: an import that fails partway leaves the core fields, the logs, the
\* EntropyField and the subsystem states exactly as they were before the call
C15_ImportAllOrNothing ==
  [][\A t \in Threads :
       (pc[t] = "import_build" /\ pc'[t] = "import_raise") =>
         UNCHANGED <<time_salt, identity_fragments, fork_log, anomaly_echoes, sentient_logs,
                     entropy_field, dict_objects, known_combinations, combination_history,
                     transmutation_count, mastery_level>>]_vars

\* C16: a load that finds the file absent or unreadable changes no coordinator
\* state, and the fallback that follows it completes: the coordinator ends
\* idle with its default drift map built
C16_FailedLoadFallsBack ==
  /\ [][\A t \in Threads :
          (pc[t] = "load_read" /\ pc'[t] = "initdef_acquire") =>
            UNCHANGED <<state_lock, fieldVars, ledgerVars, logVars, known_combinations,
                        combination_history, transmutation_count, mastery_level>>]_vars
  /\ \A t \in Threads :
       (pc[t] = "load_read" /\ save_file.kind # "json") ~>
         (pc[t] = "idle" /\ state_lock # t /\ current_drift_map # <<>>)

\* C17: a purchase whose debit the balance cannot cover is blocked: buy_item
\* returns a failure and leaves both balances, the inventory, the item's
\* price, supply and demand, and the transaction history unchanged
Uncovered(market, call) ==
  LET item == market.items[call.item_id]
  IN IF call.currency = "fragments"
       THEN market.player_fragments < item.current_price
       ELSE market.player_time_salt < salt_price(item.current_price)

C17_UncoveredDebitBlocked ==
  [][(/\ probe'.call.op = "buy"
      /\ probe'.call.item_id \in DOMAIN probe.items
      /\ Uncovered(probe, probe'.call)) =>
       /\ probe'.result.success = FALSE
       /\ probe'.player_fragments = probe.player_fragments
       /\ probe'.player_time_salt = probe.player_time_salt
       /\ probe'.player_inventory = probe.player_inventory
       /\ probe'.items = probe.items
       /\ probe'.transaction_history = probe.transaction_history]_vars

C19_ResolveInsideSection ==
  pc["ui"] = "combine_record" => state_lock \notin Threads \ {"ui"}

\* C20: a timer firing that finds the section held waits: it neither gives up
\* nor changes the field while waiting, it enters unless the holder never
\* releases, and once inside it holds the section until every scalar and
\* every map key has been updated from its value at entry
TickBody ==
  {"tick_flux", "tick_resonance", "tick_harmonics", "tick_temporal", "tick_volatility",
   "tick_return"}

\* the field a firing leaves, from the field f at its entry and its draw d
TickApplied(f, d) ==
  [global_flux |-> Clamp(0, Scale, f.global_flux + d.flux),
   enclave_resonance |->
     [e \in DOMAIN f.enclave_resonance |->
        Clamp(0, Scale, f.enclave_resonance[e] + d.resonance[e])],
   glyph_harmonics |->
     [g \in DOMAIN f.glyph_harmonics |->
        Clamp(0, Scale, f.glyph_harmonics[g] + d.harmonic[g])],
   temporal_distortion |-> Clamp(-Scale, Scale, f.temporal_distortion + d.temporal),
   market_volatility |-> Clamp(0, Scale, f.market_volatility + d.volatility)]

\* a holder that waits for the section it holds
HolderStuck == \E t \in Threads : state_lock = t /\ pc[t] \in AcquireLabels

C20_TickOnlyDelayed ==
  /\ [](pc[TimerThread] \in TickBody => state_lock = TimerThread)
  /\ [](pc[TimerThread] = "tick_return" =>
          Deref(entropy_field) =
            TickApplied(frame[TimerThread].entry.field, TickDraws[frame[TimerThread].draw]))
  /\ [][pc[TimerThread] = "tick_acquire" => pc'[TimerThread] \in {"tick_acquire", "tick_flux"}]_vars
  /\ [][(pc[TimerThread] # "idle" /\ pc'[TimerThread] = "idle") =>
          pc[TimerThread] = "tick_return"]_vars
  /\ (pc[TimerThread] = "tick_acquire") ~> (pc[TimerThread] = "tick_return" \/ HolderStuck)

\* a firing that waits for the section while a caller is inside a collapse
C20_Witness ==
  /\ pc[TimerThread] = "tick_acquire"
  /\ \E t \in Callers : state_lock = t /\ pc[t] = "collapse_frag_store"

\* C21: each collapse appends exactly one record of kind collapse to the
\* operation log and one unfractured echo wrapping it to the echo log, and
\* returns that record
C21_CollapseAppendsRecordAndEcho ==
  \A t \in Threads :
    pc[t] = "collapse_return" =>
      /\ Len(fork_log) = frame[t].entry.log_len + 1
      /\ fork_log[Len(fork_log)] = frame[t].rec[1]
      /\ anomaly_echoes # <<>>
      /\ anomaly_echoes[Len(anomaly_echoes)].fractured = FALSE
      /\ anomaly_echoes[Len(anomaly_echoes)].source_data = frame[t].rec[1]

\* C22: a scan returns a grid of exactly height rows of width cells, each a
\* member of the symbol set, and leaves the operation log, the ledger and the
\* field as they were at its entry
DefaultMapWidth == 5
DefaultMapHeight == 5

C22_ScanReturnsGrid ==
  \A t \in Threads :
    pc[t] = "scan_return" =>
      LET drift_map == current_drift_map[1]
      IN /\ Len(drift_map) = DefaultMapHeight
         /\ \A y \in 1..Len(drift_map) :
              /\ Len(drift_map[y]) = DefaultMapWidth
              /\ \A x \in 1..Len(drift_map[y]) : drift_map[y][x] \in Glyphs
         /\ Len(fork_log) = frame[t].entry.log_len
         /\ time_salt = frame[t].entry.time_salt
         /\ identity_fragments = frame[t].entry.identity_fragments
         /\ Deref(entropy_field) = frame[t].entry.field

\* C23: a wipe of a log of N entries appends exactly min(3, N) echoes, each
\* fractured and each derived from a distinct entry of that log; with N = 0
\* the echo log is unchanged
DerivedFrom(corrupted_data, entry) ==
  /\ DOMAIN corrupted_data = DOMAIN entry
  /\ \A key \in DOMAIN entry :
       corrupted_data[key] = entry[key] \/ corrupted_data[key] = FractureValue(entry[key])

C23_WipeEchoesDistinctEntries ==
  [][\A t \in Threads :
       (pc[t] = "wipe_echo" /\ pc'[t] = "wipe_clear") =>
         LET N == Len(fork_log)
             k == IF N < 3 THEN N ELSE 3
             old == Len(anomaly_echoes)
         IN /\ Len(anomaly_echoes') = old + k
            /\ SubSeq(anomaly_echoes', 1, old) = anomaly_echoes
            /\ \E s \in Samples(N, k) :
                 \A i \in 1..k :
                   /\ anomaly_echoes'[old + i].fractured
                   /\ DerivedFrom(anomaly_echoes'[old + i].corrupted_data, fork_log[s[i]])]_vars

\* a wipe of four forks that has left three echoes, one of them with
\* corrupted fields
C23_Witness ==
  /\ pc["ui"] = "wipe_clear"
  /\ Len(fork_log) = 4
  /\ Len(anomaly_echoes) = 3
  /\ \E i \in 1..3 : anomaly_echoes[i].corrupted_data.entropy_level = Str(Placeholder)

\* C24: every echo of the echo log carries exactly one of source_data and
\* corrupted_data: corrupted_data and no source_data when it is fractured,
\* source_data and no corrupted_data when it is not
C24_EchoCarriesOneData ==
  \A i \in 1..Len(anomaly_echoes) :
    LET echo == anomaly_echoes[i]
    IN IF echo.fractured
         THEN "corrupted_data" \in DOMAIN echo /\ "source_data" \notin DOMAIN echo
         ELSE "source_data" \in DOMAIN echo /\ "corrupted_data" \notin DOMAIN echo

\* a collapse and a wipe have both left their echoes in the log
C24_Witness ==
  /\ \E i \in 1..Len(anomaly_echoes) : anomaly_echoes[i].fractured
  /\ \E i \in 1..Len(anomaly_echoes) : ~anomaly_echoes[i].fractured

\* C25: a resolve that finds its key in the registry leaves every stored
\* record as it was, and the registry changes only in a resolve that ends in
\* a discovery
C25_KnownLeavesRegistry ==
  [][/\ (/\ last_call'.n = last_call.n + 1
         /\ ~last_call'.raised
         /\ _generate_pattern_key(last_call'.glyphs) \in DOMAIN known_combinations)
          => known_combinations' = known_combinations
     /\ known_combinations' # known_combinations
          => /\ last_call'.n = last_call.n + 1
             /\ IsDiscovery(combination_history'[Len(combination_history')].result)]_vars

\* a known combination has succeeded with a mastery bonus and a multiplier
\* other than one
C25_Witness ==
  /\ combination_history # <<>>
  /\ LET result == combination_history[Len(combination_history)].result
     IN /\ result.type = "known_combination"
        /\ result.success
        /\ result.mastery_bonus > 0
        /\ result.entropy_modifier # Scale
        /\ result.stability # known_combinations[result.pattern_key].stability

\* the level a resolve that is no discovery would leave
RepeatLevel == Min(MasteryCeiling, mastery_level + MasteryGain)

\* a resolve that did not raise has just been recorded
Resolution ==
  /\ last_call'.n = last_call.n + 1
  /\ ~last_call'.raised

\* ... and it ended in a discovery
DiscoveryResolution ==
  /\ Resolution
  /\ IsDiscovery(combination_history'[Len(combination_history')].result)

\* C26, as stated: over valid resolves the mastery level never decreases and
\* never exceeds the ceiling, below the ceiling every resolution raises it,
\* and a discovery raises it by more than a resolution that is none
C26_DiscoveryRaisesMore ==
  [][/\ Resolution =>
          /\ mastery_level' >= mastery_level
          /\ mastery_level' <= MasteryCeiling
          /\ mastery_level < MasteryCeiling => mastery_level' > mastery_level
     /\ (DiscoveryResolution /\ mastery_level < MasteryCeiling) =>
          mastery_level' - mastery_level > RepeatLevel - mastery_level]_vars

\* C26, amended: the same, but a discovery raises the level by at least as
\* much as a resolution that is none, and by more whenever that resolution
\* would leave the level below the ceiling
C26_DiscoveryRaisesAtLeast ==
  [][/\ Resolution =>
          /\ mastery_level' >= mastery_level
          /\ mastery_level' <= MasteryCeiling
          /\ mastery_level < MasteryCeiling => mastery_level' > mastery_level
     /\ DiscoveryResolution =>
          /\ mastery_level' >= RepeatLevel
          /\ mastery_level + MasteryGain < MasteryCeiling => mastery_level' > RepeatLevel]_vars

\* a discovery made one gain below the ceiling has been cut off at the ceiling
C26_Witness ==
  /\ combination_history # <<>>
  /\ LET last == combination_history[Len(combination_history)]
     IN /\ IsDiscovery(last.result)
        /\ last.mastery_at_time = MasteryCeiling - MasteryGain
        /\ mastery_level = MasteryCeiling

\* what a pair of categories contributes: the table's value, 0.5 for a pair
\* the table does not hold
PairResonance(elem1, elem2) ==
  IF elem1 \in Elements /\ elem2 \in Elements
    THEN resonance_matrix[elem1][elem2]
    ELSE _calculate_elemental_resonance(elem1, elem2)

\* the mean of PairResonance over all pairs of distinct positions
MeanPairResonance(glyphs) ==
  LET pairs == {p \in (1..Len(glyphs)) \X (1..Len(glyphs)) : p[1] < p[2]}
      value == [p \in pairs |-> PairResonance(elemental_affinity(glyphs[p[1]]),
                                              elemental_affinity(glyphs[p[2]]))]
  IN SumOver(pairs, value) \div Cardinality(pairs)

\* C27: the average resonance a discovery attempt is made with is the mean
\* over all pairs of distinct positions, a pair outside the table counting
\* 0.5; two tokens of unknown category give 0.5
C27_MeanOverAllPairs ==
  \A i \in 1..Len(combination_history) :
    LET entry == combination_history[i]
    IN entry.result.type = "new_discovery" =>
         entry.result.total_resonance = MeanPairResonance(entry.glyphs)

\* C28: every successful outcome of a resolve, known combination or
\* discovery, carries the rarity tier that the thresholds give for the potency
\* the same outcome carries
C28_RarityMatchesPotency ==
  \A i \in 1..Len(combination_history) :
    LET result == combination_history[i].result
    IN result.success => result.rarity = _calculate_rarity(result.potency)

\* potency, stability and entropy_cost of a record lie in [0, 1]
StatsInRange(record) ==
  /\ record.potency >= 0 /\ record.potency <= Scale
  /\ record.stability >= 0 /\ record.stability <= Scale
  /\ record.entropy_cost >= 0 /\ record.entropy_cost <= Scale

\* average resonances from 0 to 1 in steps of 0.125
ResonanceGrid == {(i * Scale) \div 8 : i \in 0..8}

\* C29: every record of the registry, seeded or discovered, has potency,
\* stability and entropy_cost within [0, 1]; so has the record synthesized
\* for a selection of 2 to 5 tokens at any average resonance (the synthesis
\* reads nothing of the state: it is tabulated once, before the first resolve)
C29_RegistryStatsInRange ==
  /\ \A key \in DOMAIN known_combinations : StatsInRange(known_combinations[key])
  /\ last_call.n = 0 =>
       \A n \in MinGlyphs..MaxGlyphs, resonance \in ResonanceGrid, d \in 1..Len(NewDraws) :
         StatsInRange(_generate_new_combination([i \in 1..n |-> base_glyphs[i]], resonance,
                                                NewDraws[d]))

\* the registry holds a discovered record whose potency was cut off at 1 and
\* one whose stability was raised to 0.1
C29_Witness ==
  /\ \E key \in DOMAIN known_combinations \ DOMAIN initialize_base_combinations :
       known_combinations[key].potency = Scale
  /\ \E key \in DOMAIN known_combinations \ DOMAIN initialize_base_combinations :
       known_combinations[key].stability = 100

\* C30: a pass of fracture returns a record with exactly the field names of
\* its input, every field the pass did not select has the input's value, and
\* the input record is after the call what it was before
C30_FractureKeepsUnselected ==
  [][probe'.passes = probe.passes + 1 =>
       /\ DOMAIN probe'.result = DOMAIN probe.result
       /\ \A k \in DOMAIN probe.result \ probe'.selected :
            probe'.result[k] = probe.result[k]
       /\ probe'.input = probe.result]_vars

\* a pass over a fork record has corrupted two of its fields and left the
\* other two as they were
C30_Witness ==
  /\ probe.passes = 1
  /\ probe.selected = {"node_id", "entropy_level"}
  /\ probe.result.node_id # probe.data.node_id
  /\ probe.result.entropy_level = Str(Placeholder)
  /\ "glyph_state" \in DOMAIN probe.data
  /\ probe.result.glyph_state = probe.data.glyph_state
  /\ probe.result.alchemy_potential = probe.data.alchemy_potential
  /\ probe.input = probe.data

\* y is x with its first half kept and every later position a block glyph
HalfKept(x, y) ==
  /\ Len(y) = Len(x)
  /\ \A i \in 1..Len(x) :
       y[i] = IF i <= Len(x) \div 2 THEN x[i] ELSE Block

\* C31: a pass of fracture that corrupts a string longer than 3 characters
\* or a sequence returns the first half of the original followed by
\* placeholders over all the rest, as long as the original whether its
\* length is odd or even; a string of at most 3 characters becomes block
\* glyphs of the same length
C31_CorruptionKeepsLength ==
  [][probe'.passes = probe.passes + 1 =>
       \A k \in DOMAIN probe.result \cap probe'.selected :
         LET x == probe.result[k]
             y == probe'.result[k]
         IN /\ (x.t = "list" \/ (x.t = "str" /\ Len(x.v) > 3)) =>
                 y.t = x.t /\ HalfKept(x.v, y.v)
            /\ (x.t = "str" /\ Len(x.v) <= 3) => y = Str(Blocks(Len(x.v)))]_vars

\* C32: the operation log is append-only between memory wipes and its
\* records are immutable: a step either leaves every record already in the
\* log as it is, in its place, or is a memory wipe emptying the log
C32_LogAppendOnly ==
  [][\/ /\ Len(probe'.operation_log) >= Len(probe.operation_log)
        /\ \A i \in 1..Len(probe.operation_log) :
             probe'.operation_log[i] = probe.operation_log[i]
     \/ /\ probe'.last = "memory_wipe"
        /\ probe'.total_operations = probe.total_operations + 1
        /\ probe'.operation_log = <<>>]_vars

\* round(weight * 10) of a weight in thousandths, halves to the even side
RoundTenfold(weight) ==
  LET q == weight \div 100
      r == weight % 100
  IN IF r > 50 \/ (r = 50 /\ q % 2 = 1) THEN q + 1 ELSE q

\* C33, as stated: in a scan each symbol appears in the sampling pool
\* max(1, round(harmonic * 10)) times
C33_PoolCountRounded ==
  \A t \in Threads :
    pc[t] = "scan_return" =>
      \A glyph \in Glyphs :
        frame[t].rec[1][glyph] =
          Max(1, RoundTenfold(dict_objects[entropy_field.glyph_harmonics][glyph]))

\* C33, amended: each symbol appears max(1, floor(harmonic * 10)) times: once
\* when its harmonic is below 0.1, and otherwise the whole number of tenths
\* its harmonic holds
C33_PoolCountFloored ==
  \A t \in Threads :
    pc[t] = "scan_return" =>
      \A glyph \in Glyphs :
        LET weight == dict_objects[entropy_field.glyph_harmonics][glyph]
            count == frame[t].rec[1][glyph]
        IN /\ count >= 1
           /\ weight < 100 => count = 1
           /\ weight >= 100 => (count * 100 <= weight /\ weight < (count + 1) * 100)

\* a scan has built its pool with one harmonic at 0.97 (9 entries, where
\* rounding gives 10) and another at 1.0
C33_Witness ==
  \E t \in Threads :
    /\ pc[t] = "scan_return"
    /\ dict_objects[entropy_field.glyph_harmonics][base_glyphs[1]] = 970
    /\ frame[t].rec[1][base_glyphs[1]] = 9
    /\ frame[t].rec[1][base_glyphs[2]] = 10

ForkLabels == {"fork_build", "fork_sentient", "fork_flux"}

\* the EntropyField with its global_flux masked
BesideFlux(field) == [field EXCEPT !.global_flux = 0]

\* C34: no step of a fork changes a ledger counter, the echo log, or any
\* EntropyField value other than global_flux, and at its return the log is
\* one record longer than at admission, the new record last
C34_ForkFrame ==
  [][\A t \in Threads :
       (pc[t] \in ForkLabels /\ pc'[t] # pc[t]) =>
         /\ time_salt' = time_salt
         /\ identity_fragments' = identity_fragments
         /\ anomaly_echoes' = anomaly_echoes
         /\ BesideFlux(entropy_field') = BesideFlux(entropy_field)
         /\ dict_objects'[entropy_field'.enclave_resonance]
              = dict_objects[entropy_field.enclave_resonance]
         /\ dict_objects'[entropy_field'.glyph_harmonics]
              = dict_objects[entropy_field.glyph_harmonics]
         /\ Len(fork_log') >= Len(fork_log)
         /\ SubSeq(fork_log', 1, Len(fork_log)) = fork_log
         /\ pc'[t] = "fork_return" =>
              /\ Len(fork_log') = frame[t].entry.log_len + 1
              /\ fork_log'[Len(fork_log')] = frame[t].rec[1]]_vars

\* a fork made after a collapse is at its return: the echo log is not empty,
\* the flux has moved, the log holds the new record
C34_Witness ==
  \E t \in Threads :
    /\ pc[t] = "fork_return"
    /\ anomaly_echoes # <<>>
    /\ entropy_field.global_flux # frame[t].entry.global_flux
    /\ Len(fork_log) = frame[t].entry.log_len + 1

\* C35: the stability carried by every successful known-combination outcome
\* lies within [0, 1]
C35_KnownStabilityInRange ==
  \A i \in 1..Len(combination_history) :
    LET result == combination_history[i].result
    IN (result.type = "known_combination" /\ result.success) =>
         (result.stability >= 0 /\ result.stability <= Scale)

\* C36: after any sequence of buy_item and sell_item calls, with any item id
\* and any currency string, neither balance of the market is negative
C36_BalancesNeverNegative ==
  /\ probe.player_fragments >= 0
  /\ probe.player_time_salt >= 0

\* C37: no step of a tick changes a ledger counter, the operation log, the
\* echo log or the registry, and each keeps the key sets of the
\* zone-resonance and symbol-harmonic maps and the maps' identity
C37_TickFrame ==
  [][\A t \in Threads :
       (pc[t] \in TickBody /\ pc'[t] # pc[t]) =>
         /\ time_salt' = time_salt
         /\ identity_fragments' = identity_fragments
         /\ fork_log' = fork_log
         /\ anomaly_echoes' = anomaly_echoes
         /\ known_combinations' = known_combinations
         /\ entropy_field'.enclave_resonance = entropy_field.enclave_resonance
         /\ entropy_field'.glyph_harmonics = entropy_field.glyph_harmonics
         /\ DOMAIN entropy_field' = DOMAIN entropy_field
         /\ DOMAIN dict_objects'[entropy_field'.enclave_resonance]
              = DOMAIN dict_objects[entropy_field.enclave_resonance]
         /\ DOMAIN dict_objects'[entropy_field'.glyph_harmonics]
              = DOMAIN dict_objects[entropy_field.glyph_harmonics]]_vars

\* a tick that ran after a fork is at its return, with a harmonic and a
\* resonance moved from their values at admission
C37_Witness ==
  /\ pc[TimerThread] = "tick_return"
  /\ fork_log # <<>>
  /\ \E g \in Glyphs :
       Deref(entropy_field).glyph_harmonics[g] # frame[TimerThread].entry.field.glyph_harmonics[g]
  /\ \E e \in EnclaveIds :
       Deref(entropy_field).enclave_resonance[e]
         # frame[TimerThread].entry.field.enclave_resonance[e]

====
